---- MODULE Spec2Model ----
(***************************************************************************)
(* Saillogger Signal K plugin (src/unnamed/part_001, the 2024 revision of  *)
(* index.js): the Significance Evaluator (processDelta), the Durable       *)
(* Buffer (the sqlite table "buffer") and the Sync Engine                  *)
(* (submitDataToServer, sendMetadata).                                     *)
(*                                                                         *)
(* Units.  Time is counted in minutes (60 * 1000 ms of Date.now()).        *)
(* Speeds are tenths of a knot, courses tenths of a degree (the            *)
(* resolution metersPerSecondToKnots and radiantToDegrees round to).       *)
(* Latitudes are thousandths of a degree, distances 1/10000 nautical mile. *)
(* An optional JavaScript value is a sequence: << >> for undefined, null   *)
(* or NaN, <<v>> for the number v.                                         *)
(***************************************************************************)
EXTENDS Integers, Sequences, FiniteSets

VARIABLES
    now,                  \* Date.now()
    updateLastCalled,     \* var updateLastCalled
    lastSuccessfulUpdate, \* var lastSuccessfulUpdate
    metdataSubmitted,     \* var metdataSubmitted
    position,             \* var position: << >> or <<[latitude, longitude, changedOn]>>
    speedOverGround,      \* var speedOverGround
    maxSpeedOverGround,   \* var maxSpeedOverGround
    courseOverGroundTrue, \* var courseOverGroundTrue
    windSpeedApparent,    \* var windSpeedApparent
    angleSpeedApparent,   \* var angleSpeedApparent
    previousSpeeds,       \* var previousSpeeds, newest first
    previousCOGs,         \* var previousCOGs, newest first
    buffer,               \* rows of the sqlite table "buffer", in insertion order
    dbOps,                \* statements handed to sqlite whose completion is not yet delivered
    requests,             \* HTTP requests whose completion is not yet delivered
    pluginStatus,         \* the message last given to app.setPluginStatus
    pushOutcome,          \* the app.debug line the last push callback wrote
    aisTarget,            \* var aisTarget: mmsi -> [counter, updated, vessel]
    aisUpdates,           \* per mmsi, the "Updating AIS vessel" lines since its last "Inserting" line
    monitoringSent,       \* the aisTargets of the payload the last sendMonitoringData posted
    monitoringConfiguration, \* var monitoringConfiguration: << >> while not set, or <<what the plugin reads of it>>
    aisReturned,          \* the mmsis the last refresh inserted after "Updating" lines of an earlier stay
    metadataOnce,         \* the calls of sendMetadata arranged once per start that have not run yet
    delivered,            \* history: the timestamps of the rows in the bodies of the pushes answered with HTTP 200
    outcome,              \* the branch the last position update took in processDelta
    lifecycle             \* "started" by plugin.start, "stopped" by plugin.stop, "crashed" by an uncaught exception

vars == <<now, updateLastCalled, lastSuccessfulUpdate, metdataSubmitted, position,
          speedOverGround, maxSpeedOverGround, courseOverGroundTrue,
          windSpeedApparent, angleSpeedApparent, previousSpeeds, previousCOGs,
          buffer, dbOps, requests, pluginStatus, pushOutcome, aisTarget, aisUpdates,
          monitoringSent, monitoringConfiguration, aisReturned, metadataOnce, delivered, outcome, lifecycle>>

motionVars == <<speedOverGround, maxSpeedOverGround, courseOverGroundTrue,
                windSpeedApparent, angleSpeedApparent, previousSpeeds, previousCOGs>>

syncVars == <<lastSuccessfulUpdate, metdataSubmitted, requests, pluginStatus, pushOutcome>>

evalVars == <<now, updateLastCalled, position, outcome>>

aisVars == <<aisTarget, aisUpdates, monitoringSent, aisReturned, monitoringConfiguration>>

----------------------------------------------------------------------------
(* Program constants.                                                      *)

MIN_DISTANCE == 5000
DB_UPDATE_MINUTES == 15
DB_UPDATE_MINUTES_MOVING == 5
SPEED_THRESHOLD == 1
MINIMUM_TURN_DEGREES == 45
ANOMALY_DISTANCE == 50000
ANOMALY_MINUTES == 2
RATE_LIMIT_MINUTES == 1
SPEED_WINDOW == 3
COG_WINDOW == 6
BATCH_LIMIT == 250
DETAIL_EVERY == 30

\* Date.now() when the plugin module is constructed.
StartTime == 1000

----------------------------------------------------------------------------
(* Bounds of the model.                                                    *)

\* Statements and requests outstanding at one time.
MaxDbOps == 2
MaxRequests == 2
\* Updates of one AIS target that are followed.
MaxAisUpdates == 62
\* The one-time calls of sendMetadata that may be outstanding.
MaxMetadataOnce == 2
\* The calls of sendMetadata startPlugin arranges once: in the callback of
\* serialNumber and in the 60 s timeout.
OncePerStart == 2
\* Rows the storage can hold: an INSERT into a full table fails (SQLITE_FULL).
Capacity == 3
SmallCapacity == 1
FullCapacity == 254
\* Minutes of wall clock the short runs cover.
ShortHorizon == 4
SyncHorizon == 1
TurnHorizon == 1

----------------------------------------------------------------------------
(* Optional values and JavaScript arithmetic on them.                      *)

None == << >>
Some(v) == <<v>>
Has(x) == x # << >>
Val(x) == x[1]

Abs(x) == IF x < 0 THEN -x ELSE x
Max(a, b) == IF a >= b THEN a ELSE b

\* Math.round(x) for x = num / den with den > 0: the nearest integer, ties upward.
Round(num, den) == (2 * num + den) \div (2 * den)

\* Math.max(a, b) where a may be undefined or NaN: the result is then NaN.
MathMax(a, b) == IF Has(a) THEN Some(Max(Val(a), b)) ELSE None

\* a >= b and a > b, a <= b for an optional a: false when a is undefined.
GreaterEq(a, b) == Has(a) /\ Val(a) >= b
Greater(a, b) == Has(a) /\ Val(a) > b
LessEq(a, b) == Has(a) /\ Val(a) <= b

\* A variant that adds at the end: array.push(x) followed by array.slice(0, n)
UnshiftSlice_Push(x, array, n) == SubSeq(array \o <<x>>, 1, IF Len(array) + 1 < n THEN Len(array) + 1 ELSE n)

\* array.unshift(x) followed by array.slice(0, n)
UnshiftSlice(x, array, n) == SubSeq(<<x>> \o array, 1, IF Len(array) + 1 < n THEN Len(array) + 1 ELSE n)

----------------------------------------------------------------------------
(* Unit conversions.                                                       *)

\* Math.round(ms * 1.94384 * 10) / 10, ms given in cm/s, result in tenths of a knot.
metersPerSecondToKnots(cms) == Round(cms * 194384, 1000000)

\* Math.round(rad * 57.2958 * 10) / 10, rad given in 1/100 rad, result in tenths of a degree.
radiantToDegrees(crad) == Round(crad * 572958, 100000)

\* Spherical law of cosines.  For two points on one meridian cos(theta) = 1 and
\* sin(a)sin(b) + cos(a)cos(b) = cos(a - b), so acos returns |a - b| and the result is
\* |lat1 - lat2| degrees * 60 * 1.1515 * 0.8684 nm.  The model feeds positions of one meridian.
calculateDistance(lat1, lon1, lat2, lon2) ==
    IF lat1 = lat2 /\ lon1 = lon2 THEN 0
    ELSE (Abs(lat1 - lat2) * 599978) \div 1000

----------------------------------------------------------------------------
(* Sensor inputs the model feeds.                                          *)

\* navigation.position values: three points of the prime meridian, 0.6 nm and 6 nm apart.
Latitudes == {0, 10, 100}
Positions == {[latitude |-> l, longitude |-> 0] : l \in Latitudes}
NearPositions == {[latitude |-> l, longitude |-> 0] : l \in {0, 10}}
\* A vessel reported at one place.
FixedPositions == {[latitude |-> 0, longitude |-> 0]}

\* navigation.speedOverGround in cm/s: 0.4 kn, 1.6 kn, 2.5 kn and 3.5 kn.
SpeedInputs == {20, 80, 130, 180}

\* navigation.courseOverGroundTrue in 1/100 rad: 9.7, 40.1 and 350.1 degrees.
CogInputs == {17, 70, 611}

\* environment.wind.speedApparent in cm/s and environment.wind.angleApparent in 1/100 rad.
WindInputs == {500}
AngleInputs == {52}

\* The vessels app.getPath('vessels') may list with an mmsi other than our own and
\* a navigation.position, and the seconds their position timestamps round to.
Mmsis == {"211000001", "211000002"}
AisStamps == {1, 2}
Sightings == UNION {[seen -> AisStamps] : seen \in SUBSET Mmsis}

\* app.getSelfPath('mmsi')
selfMmsi == "211000000"

\* What app.getPath('vessels') lists, by key: the vessel itself, a vessel in
\* range, a vessel known by its static data only and a vessel without mmsi.
VesselMmsi ==
    [self |-> Some(selfMmsi), near |-> Some("211000001"), static |-> Some("211000002"),
     anonymous |-> None]

\* The trees app.getPath('vessels') may return: the vessel itself is always
\* listed with a position, the static one always without; for every vessel
\* listed, the timestamp of its navigation.position or none.
VesselTrees ==
    {tree \in UNION {[keys -> {None} \cup {Some(t) : t \in AisStamps}] :
                        keys \in SUBSET DOMAIN VesselMmsi} :
        /\ "self" \in DOMAIN tree /\ Has(tree["self"])
        /\ "static" \in DOMAIN tree /\ ~Has(tree["static"])}

----------------------------------------------------------------------------
(* Significance Evaluator.                                                 *)

Knots(k) == k * 10
Degrees(d) == d * 10

timePassed == now - updateLastCalled

\* A variant of the turn test that compares the ends of a window of any length.
vesselMadeSignificantTurn_AnyWindow ==
    IF Len(previousCOGs) < 2 THEN FALSE
    ELSE Abs(previousCOGs[Len(previousCOGs)] - previousCOGs[1]) > Degrees(MINIMUM_TURN_DEGREES)

vesselMadeSignificantTurn ==
    IF Len(previousCOGs) < COG_WINDOW THEN FALSE
    ELSE Abs(previousCOGs[6] - previousCOGs[1]) > Degrees(MINIMUM_TURN_DEGREES)

\* A variant of the band test with some() in the place of every().
vesselSlowedDownOrSpeededUp_Some(threshold) ==
    \/ /\ LessEq(speedOverGround, threshold)
       /\ \E i \in 1..Len(previousSpeeds) : previousSpeeds[i] > threshold
    \/ /\ Greater(speedOverGround, threshold)
       /\ \E i \in 1..Len(previousSpeeds) : previousSpeeds[i] <= threshold

vesselSlowedDownOrSpeededUp(threshold) ==
    \/ /\ LessEq(speedOverGround, threshold)
       /\ \A i \in 1..Len(previousSpeeds) : previousSpeeds[i] > threshold
    \/ /\ Greater(speedOverGround, threshold)
       /\ \A i \in 1..Len(previousSpeeds) : previousSpeeds[i] <= threshold

\* Date.now() - position.changedOn; a null changedOn converts to 0.
timeBetweenPositions == now - (IF Has(Val(position).changedOn) THEN Val(Val(position).changedOn) ELSE 0)

distanceTo(value) ==
    calculateDistance(Val(position).latitude, Val(position).longitude,
                      value.latitude, value.longitude)

\* The anomaly guard of processDelta.
erroneousPosition(value) ==
    timeBetweenPositions <= ANOMALY_MINUTES /\ distanceTo(value) >= ANOMALY_DISTANCE

\* A variant of the chain without the one-minute test.
triggerRule_NoRateLimit(value) ==
    IF timePassed >= DB_UPDATE_MINUTES THEN "rule1"
    ELSE IF GreaterEq(speedOverGround, Knots(SPEED_THRESHOLD))
            /\ timePassed >= DB_UPDATE_MINUTES_MOVING THEN "rule2"
    ELSE IF distanceTo(value) >= MIN_DISTANCE THEN "rule3"
    ELSE IF GreaterEq(speedOverGround, Knots(SPEED_THRESHOLD))
            /\ vesselMadeSignificantTurn THEN "rule4"
    ELSE IF \/ vesselSlowedDownOrSpeededUp(Knots(SPEED_THRESHOLD))
            \/ vesselSlowedDownOrSpeededUp(Knots(SPEED_THRESHOLD * 2))
            \/ vesselSlowedDownOrSpeededUp(Knots(SPEED_THRESHOLD * 3)) THEN "rule5"
    ELSE "none"

\* A variant of the chain without the worst-case interval.
triggerRule_NoHeartbeat(value) ==
    IF ~(timePassed >= RATE_LIMIT_MINUTES) THEN "limited"
    ELSE IF GreaterEq(speedOverGround, Knots(SPEED_THRESHOLD))
            /\ timePassed >= DB_UPDATE_MINUTES_MOVING THEN "rule2"
    ELSE IF distanceTo(value) >= MIN_DISTANCE THEN "rule3"
    ELSE IF GreaterEq(speedOverGround, Knots(SPEED_THRESHOLD))
            /\ vesselMadeSignificantTurn THEN "rule4"
    ELSE IF \/ vesselSlowedDownOrSpeededUp(Knots(SPEED_THRESHOLD))
            \/ vesselSlowedDownOrSpeededUp(Knots(SPEED_THRESHOLD * 2))
            \/ vesselSlowedDownOrSpeededUp(Knots(SPEED_THRESHOLD * 3)) THEN "rule5"
    ELSE "none"

\* A variant of the chain without the distance rule.
triggerRule_NoDistance(value) ==
    IF ~(timePassed >= RATE_LIMIT_MINUTES) THEN "limited"
    ELSE IF timePassed >= DB_UPDATE_MINUTES THEN "rule1"
    ELSE IF GreaterEq(speedOverGround, Knots(SPEED_THRESHOLD))
            /\ timePassed >= DB_UPDATE_MINUTES_MOVING THEN "rule2"
    ELSE IF GreaterEq(speedOverGround, Knots(SPEED_THRESHOLD))
            /\ vesselMadeSignificantTurn THEN "rule4"
    ELSE IF \/ vesselSlowedDownOrSpeededUp(Knots(SPEED_THRESHOLD))
            \/ vesselSlowedDownOrSpeededUp(Knots(SPEED_THRESHOLD * 2))
            \/ vesselSlowedDownOrSpeededUp(Knots(SPEED_THRESHOLD * 3)) THEN "rule5"
    ELSE "none"

\* A variant of the chain that asks for the distance before the moving interval.
triggerRule_DistanceFirst(value) ==
    IF ~(timePassed >= RATE_LIMIT_MINUTES) THEN "limited"
    ELSE IF timePassed >= DB_UPDATE_MINUTES THEN "rule1"
    ELSE IF distanceTo(value) >= MIN_DISTANCE THEN "rule3"
    ELSE IF GreaterEq(speedOverGround, Knots(SPEED_THRESHOLD))
            /\ timePassed >= DB_UPDATE_MINUTES_MOVING THEN "rule2"
    ELSE IF GreaterEq(speedOverGround, Knots(SPEED_THRESHOLD))
            /\ vesselMadeSignificantTurn THEN "rule4"
    ELSE IF \/ vesselSlowedDownOrSpeededUp(Knots(SPEED_THRESHOLD))
            \/ vesselSlowedDownOrSpeededUp(Knots(SPEED_THRESHOLD * 2))
            \/ vesselSlowedDownOrSpeededUp(Knots(SPEED_THRESHOLD * 3)) THEN "rule5"
    ELSE "none"

\* The if / else-if chain of processDelta: the branch taken for an accepted position.
triggerRule(value) ==
    IF ~(timePassed >= RATE_LIMIT_MINUTES) THEN "limited"
    ELSE IF timePassed >= DB_UPDATE_MINUTES THEN "rule1"
    ELSE IF GreaterEq(speedOverGround, Knots(SPEED_THRESHOLD))
            /\ timePassed >= DB_UPDATE_MINUTES_MOVING THEN "rule2"
    ELSE IF distanceTo(value) >= MIN_DISTANCE THEN "rule3"
    ELSE IF GreaterEq(speedOverGround, Knots(SPEED_THRESHOLD))
            /\ vesselMadeSignificantTurn THEN "rule4"
    ELSE IF \/ vesselSlowedDownOrSpeededUp(Knots(SPEED_THRESHOLD))
            \/ vesselSlowedDownOrSpeededUp(Knots(SPEED_THRESHOLD * 2))
            \/ vesselSlowedDownOrSpeededUp(Knots(SPEED_THRESHOLD * 3)) THEN "rule5"
    ELSE "none"

Rules == {"rule1", "rule2", "rule3", "rule4", "rule5"}

\* A statement given to db.  Once plugin.stop has closed the handle no statement
\* reaches the table: what is queued is the error owed to its callback ("none"
\* for a statement given without callback).
onHandle(statement, callback) ==
    IF lifecycle = "stopped" THEN [op |-> "closed", callback |-> callback] ELSE statement

\* The row updateDatabase binds to INSERT INTO buffer VALUES(?, ?, ?, ?, ?, ?, ?).
insertValues(value) ==
    [ts |-> now, latitude |-> value.latitude, longitude |-> value.longitude,
     speedOverGround |-> maxSpeedOverGround,
     courseOverGroundTrue |-> courseOverGroundTrue,
     windSpeedApparent |-> windSpeedApparent,
     angleSpeedApparent |-> angleSpeedApparent]

\* position = value; position.changedOn = Date.now(); updateDatabase():
\* the insert is handed to sqlite and position.changedOn is cleared.
updateDatabase(value) ==
    /\ updateLastCalled' = now
    /\ dbOps' = Append(dbOps, onHandle([op |-> "insert", row |-> insertValues(value)], "insert"))
    /\ position' = Some([latitude |-> value.latitude, longitude |-> value.longitude,
                         changedOn |-> None])

\* A variant of the position case in which a rejected update restarts the
\* two minutes of the guard.
ProcessPosition_RejectRefreshes(value) ==
    /\ lifecycle # "crashed"
    /\ Len(dbOps) < MaxDbOps
    /\ IF ~Has(position)
       THEN /\ position' = Some([latitude |-> value.latitude, longitude |-> value.longitude,
                                 changedOn |-> Some(now)])
            /\ outcome' = "first"
            /\ UNCHANGED <<updateLastCalled, dbOps>>
       ELSE IF erroneousPosition(value)
       THEN /\ outcome' = "erroneous"
            /\ position' = Some([Val(position) EXCEPT !.changedOn = Some(now)])
            /\ UNCHANGED <<updateLastCalled, dbOps>>
       ELSE IF triggerRule(value) \in Rules
       THEN /\ outcome' = triggerRule(value)
            /\ updateDatabase(value)
       ELSE /\ outcome' = triggerRule(value)
            /\ position' = Some([Val(position) EXCEPT !.changedOn = Some(now)])
            /\ UNCHANGED <<updateLastCalled, dbOps>>
    /\ UNCHANGED <<lifecycle, delivered, metadataOnce, aisVars, now, motionVars, buffer, syncVars>>

\* processDelta, case 'navigation.position' (no explicit GPS source configured).
ProcessPosition(value) ==
    /\ lifecycle # "crashed"
    /\ Len(dbOps) < MaxDbOps
    /\ IF ~Has(position)
       THEN /\ position' = Some([latitude |-> value.latitude, longitude |-> value.longitude,
                                 changedOn |-> Some(now)])
            /\ outcome' = "first"
            /\ UNCHANGED <<updateLastCalled, dbOps>>
       ELSE IF erroneousPosition(value)
       THEN /\ outcome' = "erroneous"
            /\ UNCHANGED <<position, updateLastCalled, dbOps>>
       ELSE IF triggerRule(value) \in Rules
       THEN /\ outcome' = triggerRule(value)
            /\ updateDatabase(value)
       ELSE /\ outcome' = triggerRule(value)
            /\ position' = Some([Val(position) EXCEPT !.changedOn = Some(now)])
            /\ UNCHANGED <<updateLastCalled, dbOps>>
    /\ UNCHANGED <<lifecycle, delivered, metadataOnce, aisVars, now, motionVars, buffer, syncVars>>

\* processDelta, case 'navigation.speedOverGround'
ProcessSpeed(value) ==
    /\ lifecycle # "crashed"
    /\ speedOverGround' = Some(metersPerSecondToKnots(value))
    /\ maxSpeedOverGround' = MathMax(maxSpeedOverGround, metersPerSecondToKnots(value))
    /\ previousSpeeds' = UnshiftSlice(metersPerSecondToKnots(value), previousSpeeds, SPEED_WINDOW)
    /\ UNCHANGED <<lifecycle, delivered, metadataOnce, aisVars, evalVars, courseOverGroundTrue, windSpeedApparent,
                   angleSpeedApparent, previousCOGs, buffer, dbOps, syncVars>>

\* processDelta, case 'navigation.courseOverGroundTrue'
ProcessCog(value) ==
    /\ lifecycle # "crashed"
    /\ courseOverGroundTrue' = Some(radiantToDegrees(value))
    /\ previousCOGs' = UnshiftSlice(radiantToDegrees(value), previousCOGs, COG_WINDOW)
    /\ UNCHANGED <<lifecycle, delivered, metadataOnce, aisVars, evalVars, speedOverGround, maxSpeedOverGround,
                   windSpeedApparent, angleSpeedApparent, previousSpeeds, buffer, dbOps,
                   syncVars>>

\* processDelta, case 'environment.wind.speedApparent'
ProcessWindSpeed(value) ==
    /\ lifecycle # "crashed"
    /\ windSpeedApparent' = Max(windSpeedApparent, metersPerSecondToKnots(value))
    /\ UNCHANGED <<lifecycle, delivered, metadataOnce, aisVars, evalVars, speedOverGround, maxSpeedOverGround,
                   courseOverGroundTrue, angleSpeedApparent, previousSpeeds, previousCOGs,
                   buffer, dbOps, syncVars>>

\* processDelta, case 'environment.wind.angleApparent'
ProcessWindAngle(value) ==
    /\ lifecycle # "crashed"
    /\ angleSpeedApparent' = Some(radiantToDegrees(value))
    /\ UNCHANGED <<lifecycle, delivered, metadataOnce, aisVars, evalVars, speedOverGround, maxSpeedOverGround,
                   courseOverGroundTrue, windSpeedApparent, previousSpeeds, previousCOGs,
                   buffer, dbOps, syncVars>>

----------------------------------------------------------------------------
(* Durable Buffer: completions of the statements handed to sqlite.         *)

RemoveAt(seq, i) == SubSeq(seq, 1, i - 1) \o SubSeq(seq, i + 1, Len(seq))

\* A variant of the INSERT callback that empties the speed window as well.
InsertDone_ClearsWindow(i, ok, capacity) ==
    /\ lifecycle # "crashed"
    /\ i \in 1..Len(dbOps)
    /\ dbOps[i].op = "insert"
    /\ ok => Len(buffer) < capacity
    /\ buffer' = IF ok THEN Append(buffer, dbOps[i].row) ELSE buffer
    /\ dbOps' = RemoveAt(dbOps, i)
    /\ windSpeedApparent' = 0
    /\ maxSpeedOverGround' = Some(0)
    /\ previousSpeeds' = << >>
    /\ UNCHANGED <<lifecycle, delivered, metadataOnce, aisVars, evalVars, speedOverGround, courseOverGroundTrue, angleSpeedApparent,
                   previousCOGs, syncVars>>

\* INSERT completes: on success the row is in the table; the callback of
\* updateDatabase runs either way and resets the aggregates.
InsertDone(i, ok, capacity) ==
    /\ lifecycle # "crashed"
    /\ i \in 1..Len(dbOps)
    /\ dbOps[i].op = "insert"
    /\ ok => Len(buffer) < capacity
    /\ buffer' = IF ok THEN Append(buffer, dbOps[i].row) ELSE buffer
    /\ dbOps' = RemoveAt(dbOps, i)
    /\ windSpeedApparent' = 0
    /\ maxSpeedOverGround' = Some(0)
    /\ UNCHANGED <<lifecycle, delivered, metadataOnce, aisVars, evalVars, speedOverGround, courseOverGroundTrue, angleSpeedApparent,
                   previousSpeeds, previousCOGs, syncVars>>

\* The wall clock advances to the next of the instants at which handlers are run.
Tick(instants) ==
    /\ \E t \in instants : t > now
    /\ now' = CHOOSE t \in instants : t > now /\ \A u \in instants : u > now => t <= u
    /\ UNCHANGED <<lifecycle, delivered, metadataOnce, aisVars, updateLastCalled, position, motionVars, buffer, dbOps, syncVars, outcome>>

----------------------------------------------------------------------------
\* The state once the module is constructed and plugin.start has opened the
\* database, whose table holds `rows` (what an earlier run left unsent).
InitWith(rows) ==
    /\ now = StartTime
    /\ updateLastCalled = StartTime
    /\ lastSuccessfulUpdate = None
    /\ metdataSubmitted = FALSE
    /\ position = None
    /\ speedOverGround = None
    /\ maxSpeedOverGround = None
    /\ courseOverGroundTrue = None
    /\ windSpeedApparent = 0
    /\ angleSpeedApparent = None
    /\ previousSpeeds = << >>
    /\ previousCOGs = << >>
    /\ buffer = rows
    /\ dbOps = << >>
    /\ requests = << >>
    /\ pluginStatus = [entries |-> None, since |-> None]
    /\ pushOutcome = "none"
    /\ aisTarget = << >>
    /\ aisUpdates = [m \in Mmsis |-> 0]
    /\ monitoringSent = None
    /\ monitoringConfiguration = None
    /\ aisReturned = {}
    /\ metadataOnce = OncePerStart
    /\ delivered = {}
    /\ outcome = "start"
    /\ lifecycle = "started"

\* Rows an earlier run wrote 30 and 20 minutes before this start.
OldRow(age) ==
    [ts |-> StartTime - age, latitude |-> 0, longitude |-> 0, speedOverGround |-> Some(0),
     courseOverGroundTrue |-> None, windSpeedApparent |-> 0, angleSpeedApparent |-> None]
OldRows == <<OldRow(30), OldRow(20)>>

Init == InitWith(<< >>)
InitRestart == \E n \in 0..Len(OldRows) : InitWith(SubSeq(OldRows, 1, n))

----------------------------------------------------------------------------
(* Durable Buffer: the statements of the Sync Engine and the status timer. *)

\* Rows ordered by ts (rows of equal ts keep their insertion order): the row at
\* place k goes to the place that counts the rows ordered before or with it.
OrderByTs(rows) ==
    LET place == SubSeq([k \in 1..Len(rows) |->
                            Cardinality({j \in 1..Len(rows) :
                                rows[j].ts < rows[k].ts \/ (rows[j].ts = rows[k].ts /\ j <= k)})],
                        1, Len(rows))
    IN  [p \in 1..Len(rows) |-> rows[CHOOSE k \in 1..Len(rows) : place[k] = p]]

\* A variant of the batch read without the ORDER BY.
SelectBatch_Unordered(rows) ==
    SubSeq(rows, 1, IF Len(rows) < BATCH_LIMIT THEN Len(rows) ELSE BATCH_LIMIT)

\* SELECT * FROM buffer ORDER BY ts LIMIT 250
SelectBatch(rows) ==
    SubSeq(OrderByTs(rows), 1, IF Len(rows) < BATCH_LIMIT THEN Len(rows) ELSE BATCH_LIMIT)

\* The row filter of DELETE FROM buffer where ts <= <cursor>
\* Variants of the DELETE's WHERE clause: the comparison turned around, and the
\* comparison made strict.
Survives_Inverted(row, cursor) == row.ts < cursor
Survives_Strict(row, cursor) == row.ts >= cursor
\* A variant that deletes the rows at the cursor only.
Survives_Unequal(row, cursor) == row.ts # cursor

Survives(row, cursor) == row.ts > cursor

\* DELETE FROM buffer where ts <= <cursor>
PruneUpTo(rows, cursor) == SelectSeq(rows, LAMBDA row : Survives(row, cursor))

\* timeSince(date): the graduated duration, here for a whole number of minutes.
timeSince(date) ==
    LET seconds == (now - date) * 60
    IN  IF seconds > 31536000 THEN <<seconds \div 31536000, "years">>
        ELSE IF seconds > 2592000 THEN <<seconds \div 2592000, "months">>
        ELSE IF seconds > 86400 THEN <<seconds \div 86400, "days">>
        ELSE IF seconds > 3600 THEN <<seconds \div 3600, "hours">>
        ELSE IF seconds > 60 THEN <<seconds \div 60, "minutes">>
        ELSE <<seconds, "seconds">>

----------------------------------------------------------------------------
(* Sync Engine.                                                            *)

\* submitDataToServer(): the batch read is handed to sqlite.
submitDataToServer(ops) == Append(ops, onHandle([op |-> "select", reader |-> "submit"], "submit"))

\* submitProcess = setInterval(submitDataToServer, SUBMIT_INTERVAL minutes)
SubmitTimer ==
    /\ lifecycle = "started"
    /\ Len(dbOps) < MaxDbOps
    /\ dbOps' = submitDataToServer(dbOps)
    /\ UNCHANGED <<lifecycle, delivered, metadataOnce, aisVars, evalVars, motionVars, buffer, syncVars>>

\* The callback of the batch read: the rows are posted to <uuid>/push, also when
\* there are none.
SubmitSelectDone(i) ==
    /\ lifecycle # "crashed"
    /\ i \in 1..Len(dbOps)
    /\ dbOps[i].op = "select" /\ dbOps[i].reader = "submit"
    /\ Len(requests) < MaxRequests
    /\ dbOps' = RemoveAt(dbOps, i)
    /\ requests' = Append(requests, [kind |-> "push", data |-> SelectBatch(buffer)])
    /\ UNCHANGED <<lifecycle, delivered, metadataOnce, aisVars, evalVars, motionVars, buffer, lastSuccessfulUpdate, metdataSubmitted,
                   pluginStatus, pushOutcome>>

\* The answers a push can get: a transport error, or a status code with, for 200,
\* a body whose processedUntil is a number or is missing, or no body at all
\* (request hands the callback undefined for an empty body and null for the
\* JSON null).
Responses(processedUntil) ==
    {[error |-> TRUE, statusCode |-> 0, body |-> FALSE, processedUntil |-> None],
     [error |-> FALSE, statusCode |-> 204, body |-> FALSE, processedUntil |-> None],
     [error |-> FALSE, statusCode |-> 500, body |-> TRUE, processedUntil |-> None],
     [error |-> FALSE, statusCode |-> 200, body |-> FALSE, processedUntil |-> None],
     [error |-> FALSE, statusCode |-> 200, body |-> TRUE, processedUntil |-> None]}
    \cup {[error |-> FALSE, statusCode |-> 200, body |-> TRUE, processedUntil |-> Some(c)] :
              c \in processedUntil}

\* body.processedUntil is evaluated first in the 200 branch and throws a
\* TypeError when the callback was handed no body.
bodyMissing(response) == ~response.error /\ response.statusCode = 200 /\ ~response.body

\* The timestamps of the rows of a push body.
Timestamps(data) == {data[k].ts : k \in 1..Len(data)}

\* The pruning statement the push callback builds: 'DELETE FROM buffer where ts <= ' + lastTs
pruneStatement(lastTs) == onHandle([op |-> "delete", cursor |-> lastTs], "none")

\* A variant of the push callback that tests only for a transport error.
PushDone_AnyStatus(i, response, fatal) ==
    /\ lifecycle # "crashed"
    /\ i \in 1..Len(requests)
    /\ requests[i].kind = "push"
    /\ fatal => bodyMissing(response)
    /\ requests' = RemoveAt(requests, i)
    /\ lifecycle' = IF fatal THEN "crashed" ELSE lifecycle
    /\ IF bodyMissing(response)
       THEN UNCHANGED <<dbOps, lastSuccessfulUpdate, pushOutcome, delivered>>
       ELSE IF ~response.error
       THEN /\ Len(dbOps) < MaxDbOps
            /\ dbOps' = Append(dbOps, pruneStatement(response.processedUntil))
            /\ lastSuccessfulUpdate' = Some(now)
            /\ pushOutcome' = "Successfully sent"
            /\ delivered' = delivered \cup Timestamps(requests[i].data)
       ELSE /\ pushOutcome' = "Connection to the server failed"
            /\ UNCHANGED <<dbOps, lastSuccessfulUpdate, delivered>>
    /\ UNCHANGED <<metadataOnce, aisVars, evalVars, motionVars, buffer, metdataSubmitted, pluginStatus>>

\* A variant of the push callback that takes HTTP 204 for a contact.
PushDone_204Counts(i, response, fatal) ==
    /\ lifecycle # "crashed"
    /\ i \in 1..Len(requests)
    /\ requests[i].kind = "push"
    /\ fatal => bodyMissing(response)
    /\ requests' = RemoveAt(requests, i)
    /\ lifecycle' = IF fatal THEN "crashed" ELSE lifecycle
    /\ IF bodyMissing(response)
       THEN UNCHANGED <<dbOps, lastSuccessfulUpdate, pushOutcome, delivered>>
       ELSE IF ~response.error /\ response.statusCode = 200
       THEN /\ Len(dbOps) < MaxDbOps
            /\ dbOps' = Append(dbOps, pruneStatement(response.processedUntil))
            /\ lastSuccessfulUpdate' = Some(now)
            /\ pushOutcome' = "Successfully sent"
            /\ delivered' = delivered \cup Timestamps(requests[i].data)
       ELSE IF ~response.error /\ response.statusCode = 204
       THEN /\ pushOutcome' = "Server responded with HTTP-204"
            /\ lastSuccessfulUpdate' = Some(now)
            /\ UNCHANGED <<dbOps, delivered>>
       ELSE /\ pushOutcome' = "Connection to the server failed"
            /\ UNCHANGED <<dbOps, lastSuccessfulUpdate, delivered>>
    /\ UNCHANGED <<metadataOnce, aisVars, evalVars, motionVars, buffer, metdataSubmitted, pluginStatus>>

\* The callback of the push request.  With no body the 200 branch throws at
\* body.processedUntil before it does anything; fatal tells whether the host lets
\* the uncaught exception end the process.
PushDone(i, response, fatal) ==
    /\ lifecycle # "crashed"
    /\ i \in 1..Len(requests)
    /\ requests[i].kind = "push"
    /\ fatal => bodyMissing(response)
    /\ requests' = RemoveAt(requests, i)
    /\ lifecycle' = IF fatal THEN "crashed" ELSE lifecycle
    /\ IF bodyMissing(response)
       THEN UNCHANGED <<dbOps, lastSuccessfulUpdate, pushOutcome, delivered>>
       ELSE IF ~response.error /\ response.statusCode = 200
       THEN /\ Len(dbOps) < MaxDbOps
            /\ dbOps' = Append(dbOps, pruneStatement(response.processedUntil))
            /\ lastSuccessfulUpdate' = Some(now)
            /\ pushOutcome' = "Successfully sent"
            /\ delivered' = delivered \cup Timestamps(requests[i].data)
       ELSE IF ~response.error /\ response.statusCode = 204
       THEN /\ pushOutcome' = "Server responded with HTTP-204"
            /\ UNCHANGED <<dbOps, lastSuccessfulUpdate, delivered>>
       ELSE /\ pushOutcome' = "Connection to the server failed"
            /\ UNCHANGED <<dbOps, lastSuccessfulUpdate, delivered>>
    /\ UNCHANGED <<metadataOnce, aisVars, evalVars, motionVars, buffer, metdataSubmitted, pluginStatus>>

\* DELETE completes.  The statement was given to db.run without a callback: when
\* it fails, or was built from a missing processedUntil ("ts <= undefined",
\* which sqlite refuses), it deletes nothing and the error is emitted as an
\* 'error' event nobody listens to, which throws; fatal tells whether the host
\* lets the uncaught exception end the process.
DeleteDone(i, ok, fatal) ==
    /\ lifecycle # "crashed"
    /\ i \in 1..Len(dbOps)
    /\ dbOps[i].op = "delete"
    /\ fatal => (~ok \/ ~Has(dbOps[i].cursor))
    /\ dbOps' = RemoveAt(dbOps, i)
    /\ buffer' = IF ok /\ Has(dbOps[i].cursor)
                 THEN PruneUpTo(buffer, Val(dbOps[i].cursor)) ELSE buffer
    /\ lifecycle' = IF fatal THEN "crashed" ELSE lifecycle
    /\ UNCHANGED <<delivered, metadataOnce, aisVars, evalVars, motionVars, syncVars>>

\* sendMetadata(options): the metadata is posted to <uuid>/update.
sendMetadata(reqs) == Append(reqs, [kind |-> "update", data |-> << >>])

\* sendMetadataProcess = setInterval(sendMetadata, SEND_METADATA_INTERVAL hours),
\* which plugin.stop clears.
SendMetadata ==
    /\ lifecycle = "started"
    /\ Len(requests) < MaxRequests
    /\ requests' = sendMetadata(requests)
    /\ UNCHANGED <<lifecycle, delivered, metadataOnce, aisVars, evalVars, motionVars, buffer, dbOps, lastSuccessfulUpdate,
                   metdataSubmitted, pluginStatus, pushOutcome>>

\* The callback of serialNumber and the 60 s timeout of startPlugin: each calls
\* sendMetadata(options) once per start, and plugin.stop cancels neither.
SendMetadataOnce ==
    /\ lifecycle # "crashed"
    /\ metadataOnce > 0
    /\ Len(requests) < MaxRequests
    /\ metadataOnce' = metadataOnce - 1
    /\ requests' = sendMetadata(requests)
    /\ UNCHANGED <<lifecycle, delivered, aisVars, evalVars, motionVars, buffer, dbOps,
                   lastSuccessfulUpdate, metdataSubmitted, pluginStatus, pushOutcome>>

\* getMonitoringConfiguration(): GET <uuid>/configuration is sent.
getMonitoringConfiguration(reqs) == Append(reqs, [kind |-> "configuration", data |-> << >>])

\* The callback of the metadata request.  On 200 it calls
\* getMonitoringConfiguration() and submitDataToServer().
MetadataDone(i, ok) ==
    /\ lifecycle # "crashed"
    /\ i \in 1..Len(requests)
    /\ requests[i].kind = "update"
    /\ requests' = IF ok THEN getMonitoringConfiguration(RemoveAt(requests, i))
                   ELSE RemoveAt(requests, i)
    /\ IF ok
       THEN /\ Len(dbOps) < MaxDbOps
            /\ lastSuccessfulUpdate' = Some(now)
            /\ dbOps' = submitDataToServer(dbOps)
            /\ metdataSubmitted' = TRUE
       ELSE UNCHANGED <<lastSuccessfulUpdate, dbOps, metdataSubmitted>>
    /\ UNCHANGED <<lifecycle, delivered, metadataOnce, aisVars, evalVars, motionVars, buffer, pluginStatus, pushOutcome>>

----------------------------------------------------------------------------
(* Monitoring: the AIS target cache.                                       *)

\* A variant of the vessel loop without the test for navigation.position.
detectedTargets_AnyVessel(vessels) ==
    LET detected == {key \in DOMAIN vessels :
                        ~(~Has(VesselMmsi[key]) \/ VesselMmsi[key] = Some(selfMmsi))}
    IN  [m \in {Val(VesselMmsi[key]) : key \in detected} |->
            LET key == CHOOSE k \in detected : Val(VesselMmsi[k]) = m
            IN  IF Has(vessels[key]) THEN Val(vessels[key]) ELSE 0]

\* The vessel loop of refreshAisData: a vessel without mmsi, with the mmsi of
\* the vessel itself or without navigation.position is skipped; the others
\* are detectedTargets, each with the timestamp of its position.
detectedTargets(vessels) ==
    LET detected == {key \in DOMAIN vessels :
                        /\ ~(~Has(VesselMmsi[key]) \/ VesselMmsi[key] = Some(selfMmsi))
                        /\ Has(vessels[key])}
    IN  [m \in {Val(VesselMmsi[key]) : key \in detected} |->
            LET key == CHOOSE k \in detected : Val(VesselMmsi[k]) = m
            IN  Val(vessels[key])]

\* A variant of the refresh that inserts a target without its details.
refreshAisData_BareInsert(cache, sightings) ==
    [m \in DOMAIN sightings |->
        IF m \notin DOMAIN cache
        THEN [counter |-> 0, updated |-> sightings[m], vessel |-> FALSE]
        ELSE IF cache[m].updated # sightings[m]
        THEN IF cache[m].counter = DETAIL_EVERY
             THEN [counter |-> 0, updated |-> sightings[m], vessel |-> TRUE]
             ELSE [counter |-> cache[m].counter + 1, updated |-> sightings[m], vessel |-> FALSE]
        ELSE cache[m]]

\* A variant of the refresh that keeps the targets it did not see.
refreshAisData_NoEviction(cache, sightings) ==
    [m \in DOMAIN cache \cup DOMAIN sightings |->
        IF m \notin DOMAIN sightings THEN cache[m]
        ELSE IF m \notin DOMAIN cache
        THEN [counter |-> 0, updated |-> sightings[m], vessel |-> TRUE]
        ELSE IF cache[m].updated # sightings[m]
        THEN IF cache[m].counter = DETAIL_EVERY
             THEN [counter |-> 0, updated |-> sightings[m], vessel |-> TRUE]
             ELSE [counter |-> cache[m].counter + 1, updated |-> sightings[m], vessel |-> FALSE]
        ELSE cache[m]]

\* refreshAisData: every vessel seen is inserted (with its details), updated when
\* its timestamp differs (the details attached when the counter, read before its
\* increment, is 30, and deleted otherwise) or left as it is; the targets not in
\* detectedTargets are then deleted.  The fields copied from the vessel (name,
\* position, speed, heading, type) are left out.
refreshAisData(cache, sightings) ==
    LET merged ==
            [m \in DOMAIN cache \cup DOMAIN sightings |->
                IF m \notin DOMAIN sightings THEN cache[m]
                ELSE IF m \notin DOMAIN cache
                THEN [counter |-> 0, updated |-> sightings[m], vessel |-> TRUE]
                ELSE IF cache[m].updated # sightings[m]
                THEN IF cache[m].counter = DETAIL_EVERY
                     THEN [counter |-> 0, updated |-> sightings[m], vessel |-> TRUE]
                     ELSE [counter |-> cache[m].counter + 1, updated |-> sightings[m],
                           vessel |-> FALSE]
                ELSE cache[m]]
    IN [m \in DOMAIN sightings |-> merged[m]]

\* The debug lines of a refresh, counted per mmsi.
loggedUpdates(cache, sightings) ==
    [m \in Mmsis |->
        IF m \notin DOMAIN sightings THEN aisUpdates[m]
        ELSE IF m \notin DOMAIN cache THEN 0
        ELSE IF cache[m].updated # sightings[m] THEN aisUpdates[m] + 1
        ELSE aisUpdates[m]]

\* The "Inserting" lines of a refresh for targets that had "Updating" lines before.
loggedReturns(cache, sightings) ==
    {m \in DOMAIN sightings : m \notin DOMAIN cache /\ aisUpdates[m] > 0}

\* The configuration versions the server may name.
Versions == {1, 2}

\* What the plugin reads of a monitoring configuration: sendAisTargets,
\* whether it has additionalDataKeys, and its version if it has one.
Configurations ==
    [sendAisTargets : BOOLEAN, additionalDataKeys : BOOLEAN,
     version : {None} \cup {Some(v) : v \in Versions}]

\* What the same reads give on a parsed body that is no object.
Scalar == [sendAisTargets |-> FALSE, additionalDataKeys |-> FALSE, version |-> None]

\* options.additionalDataKeys.length is read once the own position is known to
\* be fresh; it throws TypeError when the configuration has no such member.
missingKeys(options, selfPosition) == selfPosition /\ ~options.additionalDataKeys

\* sendMonitoringData(options).  sightings is what app.getPath('vessels')
\* shows, selfPosition whether navigation.position of the vessel itself is
\* fresh, reqs the requests in flight when it is called.  The cache is
\* refreshed or emptied; without a fresh position it returns, without
\* additionalDataKeys it throws, and otherwise it posts the payload.
sendMonitoringData(options, sightings, selfPosition, reqs) ==
    /\ \A m \in DOMAIN sightings : aisUpdates[m] < MaxAisUpdates
    /\ IF options.sendAisTargets
       THEN /\ aisTarget' = refreshAisData(aisTarget, sightings)
            /\ aisUpdates' = loggedUpdates(aisTarget, sightings)
            /\ aisReturned' = loggedReturns(aisTarget, sightings)
       ELSE /\ aisTarget' = << >>
            /\ aisReturned' = {}
            /\ UNCHANGED aisUpdates
    /\ IF selfPosition /\ options.additionalDataKeys
       THEN /\ monitoringSent' = Some(aisTarget')
            /\ requests' = Append(reqs, [kind |-> "monitoring", data |-> << >>,
                                         version |-> options.version])
       ELSE /\ monitoringSent' = None
            /\ requests' = reqs

\* monitoringProcess = setInterval(...): with the monitoring configuration set
\* the timer calls sendMonitoringData(monitoringConfiguration), and otherwise
\* getMonitoringConfiguration().  fatal tells whether the host lets an uncaught
\* exception end the process.
SendMonitoringData(sightings, selfPosition, fatal) ==
    /\ lifecycle = "started"
    /\ Len(requests) < MaxRequests
    /\ IF Has(monitoringConfiguration)
       THEN /\ fatal => missingKeys(Val(monitoringConfiguration), selfPosition)
            /\ sendMonitoringData(Val(monitoringConfiguration), sightings, selfPosition, requests)
       ELSE /\ ~fatal
            /\ requests' = getMonitoringConfiguration(requests)
            /\ UNCHANGED <<aisTarget, aisUpdates, monitoringSent, aisReturned>>
    /\ lifecycle' = IF fatal THEN "crashed" ELSE lifecycle
    /\ UNCHANGED <<monitoringConfiguration, delivered, metadataOnce, evalVars, motionVars, buffer, dbOps,
                   lastSuccessfulUpdate, metdataSubmitted, pluginStatus, pushOutcome>>

\* What GET <uuid>/configuration is answered with: an error or a status other
\* than 200; a 200 whose body JSON.parse refuses; a 200 whose body is null; a
\* 200 whose body is 0, false or ""; a 200 whose body is any other JSON value.
ConfigurationAnswers == {"failed", "unparsable", "null", "falsy", "object"}

\* The callback of the configuration request: on 200 the body is parsed, kept
\* as the monitoring configuration and handed to sendMonitoringData, whether
\* the plugin was stopped or not.  JSON.parse throws on a body that is no JSON,
\* options.sendAisTargets on null, and sendMonitoringData as described there.
ConfigurationDone(i, answer, configuration, fatal, sightings, selfPosition) ==
    /\ lifecycle # "crashed"
    /\ i \in 1..Len(requests)
    /\ requests[i].kind = "configuration"
    /\ LET options == IF answer = "object" THEN configuration ELSE Scalar
       IN  /\ fatal => \/ answer \in {"unparsable", "null"}
                       \/ answer \in {"falsy", "object"} /\ missingKeys(options, selfPosition)
           /\ monitoringConfiguration' =
                 IF answer = "object" THEN Some(configuration)
                 ELSE IF answer \in {"null", "falsy"} THEN None
                 ELSE monitoringConfiguration
           /\ IF answer \in {"falsy", "object"}
              THEN sendMonitoringData(options, sightings, selfPosition, RemoveAt(requests, i))
              ELSE /\ requests' = RemoveAt(requests, i)
                   /\ UNCHANGED <<aisTarget, aisUpdates, monitoringSent, aisReturned>>
    /\ lifecycle' = IF fatal THEN "crashed" ELSE lifecycle
    /\ UNCHANGED <<delivered, metadataOnce, evalVars, motionVars, buffer, dbOps, lastSuccessfulUpdate,
                   metdataSubmitted, pluginStatus, pushOutcome>>

\* What the monitoring post is answered with: an error, a status other than
\* 200, a 200 without a body, or a 200 whose body names a configuration version
\* or none.
MonitoringResponses ==
    {[error |-> TRUE, statusCode |-> 0, body |-> FALSE, configuration_version |-> None],
     [error |-> FALSE, statusCode |-> 500, body |-> TRUE, configuration_version |-> None],
     [error |-> FALSE, statusCode |-> 200, body |-> FALSE, configuration_version |-> None],
     [error |-> FALSE, statusCode |-> 200, body |-> TRUE, configuration_version |-> None]}
    \cup {[error |-> FALSE, statusCode |-> 200, body |-> TRUE, configuration_version |-> Some(v)] :
            v \in Versions}

\* responseData.configuration_version > options.version, which is false when
\* either is undefined.
newerConfiguration(response, version) ==
    /\ Has(response.configuration_version)
    /\ Has(version)
    /\ Val(response.configuration_version) > Val(version)

\* The callback of the monitoring post: on 200 a configuration version above
\* that of the configuration the payload was built with has the configuration
\* retrieved again; responseData.configuration_version throws on a missing
\* body.  It runs whether the plugin was stopped or not.
MonitoringDone(i, response, fatal) ==
    /\ lifecycle # "crashed"
    /\ i \in 1..Len(requests)
    /\ requests[i].kind = "monitoring"
    /\ fatal => bodyMissing(response)
    /\ requests' = IF /\ ~response.error /\ response.statusCode = 200 /\ response.body
                      /\ newerConfiguration(response, requests[i].version)
                   THEN getMonitoringConfiguration(RemoveAt(requests, i))
                   ELSE RemoveAt(requests, i)
    /\ lifecycle' = IF fatal THEN "crashed" ELSE lifecycle
    /\ UNCHANGED <<delivered, metadataOnce, aisVars, evalVars, motionVars, buffer, dbOps, lastSuccessfulUpdate,
                   metdataSubmitted, pluginStatus, pushOutcome>>

----------------------------------------------------------------------------
(* Status Reporter.                                                        *)

\* statusProcess = setInterval(..., 31 s): the table is read for the status line.
StatusTimer ==
    /\ lifecycle = "started"
    /\ Len(dbOps) < MaxDbOps
    /\ dbOps' = Append(dbOps, [op |-> "select", reader |-> "status"])
    /\ UNCHANGED <<lifecycle, delivered, metadataOnce, aisVars, evalVars, motionVars, buffer, syncVars>>

\* The callback of the status read.
StatusSelectDone(i) ==
    /\ lifecycle # "crashed"
    /\ i \in 1..Len(dbOps)
    /\ dbOps[i].op = "select" /\ dbOps[i].reader = "status"
    /\ dbOps' = RemoveAt(dbOps, i)
    /\ pluginStatus' = [entries |-> Some(Len(buffer)),
                        since |-> IF Has(lastSuccessfulUpdate)
                                  THEN Some(timeSince(Val(lastSuccessfulUpdate)))
                                  ELSE None]
    /\ UNCHANGED <<lifecycle, delivered, metadataOnce, aisVars, evalVars, motionVars, buffer, lastSuccessfulUpdate, metdataSubmitted,
                   requests, pushOutcome>>

----------------------------------------------------------------------------
(* Stop, the closed handle and failed reads.                               *)

\* plugin.stop: the four intervals are cleared and the database is closed.  The
\* subscription is left as it is (unsubscribes is never called), requests in
\* flight keep their callbacks, and so do the callback of serialNumber and the
\* 60 s timeout of startPlugin.
Stop ==
    /\ lifecycle = "started"
    /\ lifecycle' = "stopped"
    /\ UNCHANGED <<delivered, metadataOnce, aisVars, evalVars, motionVars, buffer, dbOps, syncVars>>

\* plugin.start after plugin.stop: startPlugin sets the status line, asks for
\* the serial number, opens the database file again, subscribes once more and
\* registers the timeout and the four intervals.  The variables of the module
\* keep what they hold; the statements given to the closed handle stay refused.
\* The subscription of the earlier start is still there, so from now on every
\* delta reaches processDelta more than once.
Start ==
    /\ lifecycle = "stopped"
    /\ metadataOnce + OncePerStart <= MaxMetadataOnce
    /\ lifecycle' = "started"
    /\ metadataOnce' = metadataOnce + OncePerStart
    /\ pluginStatus' = [entries |-> None, since |-> None]
    /\ UNCHANGED <<delivered, aisVars, evalVars, motionVars, buffer, dbOps,
                   lastSuccessfulUpdate, metdataSubmitted, requests, pushOutcome>>

\* The error of a statement given to the closed handle is delivered.  The callback
\* of the INSERT resets the aggregates whatever err is.  The callback of the batch
\* read evaluates data.length with data undefined and throws; the DELETE has no
\* callback, its error is emitted as an 'error' event nobody listens to, which
\* throws as well.  fatal tells whether the host lets the uncaught exception end
\* the process.
ClosedHandleDone(i, fatal) ==
    /\ lifecycle # "crashed"
    /\ i \in 1..Len(dbOps)
    /\ dbOps[i].op = "closed"
    /\ dbOps' = RemoveAt(dbOps, i)
    /\ IF dbOps[i].callback = "insert"
       THEN /\ ~fatal
            /\ windSpeedApparent' = 0
            /\ maxSpeedOverGround' = Some(0)
            /\ UNCHANGED lifecycle
       ELSE /\ lifecycle' = IF fatal THEN "crashed" ELSE lifecycle
            /\ UNCHANGED <<windSpeedApparent, maxSpeedOverGround>>
    /\ UNCHANGED <<delivered, metadataOnce, aisVars, evalVars, speedOverGround, courseOverGroundTrue, angleSpeedApparent,
                   previousSpeeds, previousCOGs, buffer, syncVars>>

\* A SELECT fails on the open handle: its callback, of the batch read or of the
\* status read, is called with err and without data, tests no err, and throws at
\* data.length before it does anything else.
SelectFailed(i, fatal) ==
    /\ lifecycle # "crashed"
    /\ i \in 1..Len(dbOps)
    /\ dbOps[i].op = "select"
    /\ dbOps' = RemoveAt(dbOps, i)
    /\ lifecycle' = IF fatal THEN "crashed" ELSE lifecycle
    /\ UNCHANGED <<delivered, metadataOnce, aisVars, evalVars, motionVars, buffer, syncVars>>

----------------------------------------------------------------------------
(* Specifications.                                                         *)

\* The clock of the short runs: every minute from start.
ShortClock == {StartTime + d : d \in 0..ShortHorizon}

SyncClock == {StartTime + d : d \in 0..SyncHorizon}

TurnClock == {StartTime + d : d \in 0..TurnHorizon}

\* The clock of the long runs: the minutes around the rate limit, the moving
\* interval and the worst-case interval.
LongClock == {StartTime + d : d \in {0, 1, 5, 15, 16}}

\* What the server may acknowledge for a push: a timestamp it was sent, or the
\* one it held before this run (between the two old rows).
Acknowledged(data) == {data[k].ts : k \in 1..Len(data)} \cup {StartTime - 25}

Sensors ==
    \/ \E value \in Positions : ProcessPosition(value)
    \/ \E value \in SpeedInputs : ProcessSpeed(value)
    \/ \E value \in CogInputs : ProcessCog(value)
    \/ \E value \in WindInputs : ProcessWindSpeed(value)
    \/ \E value \in AngleInputs : ProcessWindAngle(value)

Appends(capacity) == \E i \in 1..Len(dbOps), ok \in BOOLEAN : InsertDone(i, ok, capacity)

Storage ==
    \/ Appends(Capacity)
    \/ \E i \in 1..Len(dbOps) : SubmitSelectDone(i)
    \/ \E i \in 1..Len(dbOps), ok \in BOOLEAN, fatal \in BOOLEAN : DeleteDone(i, ok, fatal)

\* The configuration request is answered without a configuration: it fails or
\* its body is no JSON.
NoSightings == << >>
Unconfigured ==
    \E i \in 1..Len(requests), answer \in {"failed", "unparsable"}, fatal \in BOOLEAN :
        ConfigurationDone(i, answer, Scalar, fatal, NoSightings, FALSE)

Network ==
    \/ \E i \in 1..Len(requests) :
          \E response \in Responses(Acknowledged(requests[i].data)), fatal \in BOOLEAN :
              PushDone(i, response, fatal)
    \/ \E i \in 1..Len(requests), ok \in BOOLEAN : MetadataDone(i, ok)
    \/ Unconfigured

Status == StatusTimer \/ \E i \in 1..Len(dbOps) : StatusSelectDone(i)

\* The whole plugin.
Monitoring ==
    \E sightings \in Sightings, selfPosition \in BOOLEAN, fatal \in BOOLEAN :
        SendMonitoringData(sightings, selfPosition, fatal)

MonitoringAnswered ==
    \E i \in 1..Len(requests), response \in MonitoringResponses, fatal \in BOOLEAN :
        MonitoringDone(i, response, fatal)

Next ==
    \/ Tick(LongClock) \/ Sensors \/ Storage \/ Network \/ SubmitTimer \/ SendMetadata
    \/ Status \/ Monitoring
    \/ \E i \in 1..Len(requests), answer \in ConfigurationAnswers, fatal \in BOOLEAN :
          \E configuration \in Configurations, sightings \in Sightings, selfPosition \in BOOLEAN :
              ConfigurationDone(i, answer, configuration, fatal, sightings, selfPosition)
    \/ MonitoringAnswered
    \/ SendMetadataOnce \/ Stop \/ Start
    \/ \E i \in 1..Len(dbOps), fatal \in BOOLEAN : ClosedHandleDone(i, fatal)
Spec == InitRestart /\ [][Next]_vars

\* The Sync Engine and the Durable Buffer; the sensor delivers positions only.
NextSync ==
    \/ Tick(SyncClock)
    \/ \E value \in NearPositions : ProcessPosition(value)
    \/ Storage
    \/ Network
    \/ SubmitTimer
    \/ SendMetadata
SpecSync == InitRestart /\ [][NextSync]_vars

\* The same with the status timer running.
NextBuffer == NextSync \/ Status
SpecBuffer == InitRestart /\ [][NextBuffer]_vars

\* The Significance Evaluator fed with positions, minute by minute.
NextGuard ==
    \/ Tick(ShortClock)
    \/ \E value \in Positions : ProcessPosition(value)
    \/ Appends(SmallCapacity)
SpecGuard == Init /\ [][NextGuard]_vars

\* The Significance Evaluator fed with positions and speeds over a quarter of an hour.
NextEval ==
    \/ Tick(LongClock)
    \/ \E value \in Positions : ProcessPosition(value)
    \/ \E value \in {20, 130} : ProcessSpeed(value)
    \/ Appends(SmallCapacity)
SpecEval == Init /\ [][NextEval]_vars

\* The Significance Evaluator fed with courses; the reported place stays the same,
\* so that the distance rule is out of the way of the turn rule.
NextTurn ==
    \/ Tick(TurnClock)
    \/ \E value \in FixedPositions : ProcessPosition(value)
    \/ \E value \in {130} : ProcessSpeed(value)
    \/ \E value \in CogInputs : ProcessCog(value)
    \/ Appends(SmallCapacity)
SpecTurn == Init /\ [][NextTurn]_vars

\* The Significance Evaluator with every rule in reach: positions, one speed
\* above the threshold, and a course that is steady until the window is about
\* to fill and may then swing.
NextChain ==
    \/ Tick(LongClock)
    \/ \E value \in NearPositions : ProcessPosition(value)
    \/ \E value \in {130} : ProcessSpeed(value)
    \/ \E value \in {17, 611} :
          /\ value = 17 \/ Len(previousCOGs) = COG_WINDOW - 1
          /\ ProcessCog(value)
    \/ Appends(SmallCapacity)
SpecChain == Init /\ [][NextChain]_vars

\* The Significance Evaluator fed with every path of the subscription.
NextAggregate ==
    \/ Tick(TurnClock)
    \/ \E value \in NearPositions : ProcessPosition(value)
    \/ \E value \in {130} : ProcessSpeed(value)
    \/ \E value \in {17} : ProcessCog(value)
    \/ \E value \in WindInputs : ProcessWindSpeed(value)
    \/ \E value \in AngleInputs : ProcessWindAngle(value)
    \/ Appends(SmallCapacity)
SpecAggregate == Init /\ [][NextAggregate]_vars

\* The two sample windows fed with speeds and courses that differ.
NextWindows ==
    \/ \E value \in SpeedInputs : ProcessSpeed(value)
    \/ \E value \in CogInputs : ProcessCog(value)
SpecWindows == Init /\ [][NextWindows]_vars

\* The Significance Evaluator fed with speeds around the three bands.
NextBand ==
    \/ Tick(TurnClock)
    \/ \E value \in NearPositions : ProcessPosition(value)
    \/ \E value \in SpeedInputs : ProcessSpeed(value)
    \/ Appends(SmallCapacity)
SpecBand == Init /\ [][NextBand]_vars

\* The Sync Engine after an outage: the buffer holds the rows of an earlier run,
\* the store answers every statement, the server answers with a failure, with
\* 204 or with 200 and a timestamp as it likes, but a push that keeps being sent
\* is in the end answered with 200 and the largest timestamp of its batch.  The timer keeps firing and statements and requests
\* complete.
InitBacklog == InitWith(OldRows)

LargestTs(data) ==
    IF data = << >> THEN None
    ELSE Some(CHOOSE t \in {data[k].ts : k \in 1..Len(data)} :
                 \A k \in 1..Len(data) : data[k].ts <= t)

\* The answer of a server that has taken the batch: 200 with the largest
\* timestamp it was sent, and 204 for a ping without rows.
Acknowledgment(data) ==
    IF data = << >>
    THEN [error |-> FALSE, statusCode |-> 204, body |-> FALSE, processedUntil |-> None]
    ELSE [error |-> FALSE, statusCode |-> 200, body |-> TRUE, processedUntil |-> LargestTs(data)]

PushAnswered ==
    \E i \in 1..Len(requests) :
        \E response \in Responses(Acknowledged(requests[i].data)), fatal \in BOOLEAN :
              PushDone(i, response, fatal)

\* A push is answered by a server whose 200 answers carry a timestamp.
PushAnsweredInOutage ==
    \E i \in 1..Len(requests) :
        \E response \in Responses(Acknowledged(requests[i].data)) :
            /\ response.statusCode = 200 => (response.body /\ Has(response.processedUntil))
            /\ PushDone(i, response, FALSE)

PushAcknowledged ==
    \E i \in 1..MaxRequests :
        /\ i <= Len(requests)
        /\ requests[i].kind = "push"
        /\ PushDone(i, Acknowledgment(requests[i].data), FALSE)

BatchRead == \E i \in 1..MaxDbOps : SubmitSelectDone(i)

Pruned == \E i \in 1..MaxDbOps, fatal \in BOOLEAN : DeleteDone(i, TRUE, fatal)

NextLive ==
    \/ Tick(SyncClock)
    \/ \E value \in NearPositions : ProcessPosition(value)
    \/ \E i \in 1..Len(dbOps) : InsertDone(i, TRUE, Capacity)
    \/ SubmitTimer
    \/ BatchRead
    \/ PushAnsweredInOutage
    \/ PushAcknowledged
    \/ Pruned
SpecLive ==
    /\ InitBacklog
    /\ [][NextLive]_vars
    /\ WF_vars(SubmitTimer)
    /\ WF_vars(BatchRead)
    /\ WF_vars(PushAnsweredInOutage)
    /\ SF_vars(PushAcknowledged)
    /\ WF_vars(Pruned)

\* The Sync Engine after a long outage: the table holds two rows more than a
\* batch takes, written a minute apart; two INSERTs of the earlier run completed
\* in the reverse of their order, so that the row at place BATCH_LIMIT is newer
\* than the one behind it.  A push fails or is acknowledged whole.
FullRows ==
    [k \in 1..(BATCH_LIMIT + 2) |->
        OldRow(BATCH_LIMIT + 32 - (IF k = BATCH_LIMIT THEN k + 1
                                   ELSE IF k = BATCH_LIMIT + 1 THEN k - 1 ELSE k))]
InitFull == InitWith(FullRows)

PushFailed ==
    \E i \in 1..Len(requests) :
        PushDone(i, [error |-> TRUE, statusCode |-> 0, body |-> FALSE, processedUntil |-> None], FALSE)

NextFull ==
    \/ Tick(SyncClock)
    \/ \E value \in NearPositions : ProcessPosition(value)
    \/ \E i \in 1..Len(dbOps) : InsertDone(i, TRUE, FullCapacity)
    \/ SubmitTimer
    \/ BatchRead
    \/ PushFailed
    \/ PushAcknowledged
    \/ Pruned
SpecFull == InitFull /\ [][NextFull]_vars

\* A complete configuration, of version 1, that asks for no AIS targets.
SilentConfiguration ==
    [sendAisTargets |-> FALSE, additionalDataKeys |-> TRUE, version |-> Some(1)]

\* Drains that overlap, on a server that acknowledges what it was sent: rows
\* are appended while the timer and the metadata callback both start drains,
\* and a push fails or is answered with the largest timestamp of its batch.
OverlapHorizon == 2
OverlapClock == StartTime..(StartTime + OverlapHorizon)
NextOverlap ==
    \/ Tick(OverlapClock)
    \/ \E value \in NearPositions : ProcessPosition(value)
    \/ \E i \in 1..Len(dbOps) : InsertDone(i, TRUE, Capacity)
    \/ SubmitTimer
    \/ SendMetadata
    \/ \E i \in 1..Len(requests) : MetadataDone(i, TRUE)
    \/ \E i \in 1..Len(requests) :
          ConfigurationDone(i, "object", SilentConfiguration, FALSE, NoSightings, FALSE)
    \/ BatchRead
    \/ PushFailed
    \/ PushAcknowledged
    \/ Pruned
SpecOverlap == Init /\ [][NextOverlap]_vars

\* The status timer beside the Sync Engine and the metadata publish: the buffer
\* holds the rows of an earlier run and is drained while the status is read.
StatusClock == {StartTime + d : d \in {0, 1, 5}}
NextStatus ==
    \/ Tick(StatusClock)
    \/ SubmitTimer
    \/ BatchRead
    \/ PushAnswered
    \/ Pruned
    \/ SendMetadata
    \/ \E i \in 1..Len(requests), ok \in BOOLEAN : MetadataDone(i, ok)
    \/ Unconfigured
    \/ Status
SpecStatus == InitRestart /\ [][NextStatus]_vars

\* A complete configuration, of version 1, that asks for the AIS targets.
AisConfiguration ==
    [sendAisTargets |-> TRUE, additionalDataKeys |-> TRUE, version |-> Some(1)]

\* The plugin stopped while statements and requests are in flight.  When the
\* configuration is answered one vessel is in sight and the own position is
\* fresh; the monitoring post fails or is answered with a version.
OneSighting == [m \in {"211000001"} |-> 1]
NextStop ==
    \/ Tick(SyncClock)
    \/ \E value \in NearPositions : ProcessPosition(value)
    \/ Appends(SmallCapacity)
    \/ SubmitTimer
    \/ BatchRead
    \/ PushAnswered
    \/ \E i \in 1..Len(dbOps), ok \in BOOLEAN, fatal \in BOOLEAN : DeleteDone(i, ok, fatal)
    \/ SendMetadata
    \/ SendMetadataOnce
    \/ \E i \in 1..Len(requests), ok \in BOOLEAN : MetadataDone(i, ok)
    \/ \E i \in 1..Len(requests), answer \in {"failed", "unparsable", "object"}, fatal \in BOOLEAN :
          ConfigurationDone(i, answer, AisConfiguration, fatal, OneSighting, TRUE)
    \/ MonitoringAnswered
    \/ Stop
    \/ Start
    \/ \E i \in 1..Len(dbOps), fatal \in BOOLEAN : ClosedHandleDone(i, fatal)
SpecStop == Init /\ [][NextStop]_vars

\* The Sync Engine and the Status Reporter on a store whose reads may fail.
NextFault ==
    \/ Tick(ShortClock)
    \/ SubmitTimer
    \/ BatchRead
    \/ PushAnswered
    \/ \E i \in 1..Len(dbOps), ok \in BOOLEAN, fatal \in BOOLEAN : DeleteDone(i, ok, fatal)
    \/ Status
    \/ \E i \in 1..Len(dbOps), fatal \in BOOLEAN : SelectFailed(i, fatal)
SpecFault == Init /\ [][NextFault]_vars

\* The Sync Engine of a vessel that has written nothing: every drain finds the
\* buffer empty.
NextPing ==
    \/ Tick(ShortClock)
    \/ SubmitTimer
    \/ BatchRead
    \/ PushAnswered
    \/ \E i \in 1..Len(dbOps), ok \in BOOLEAN, fatal \in BOOLEAN : DeleteDone(i, ok, fatal)
SpecPing == Init /\ [][NextPing]_vars

\* The monitoring passes over the vessels in range, on a server that answers
\* every request before the timer fires again.  The configuration is complete
\* and of version 1, asks for the AIS targets or does not, and arrives while no
\* vessel is listed; the monitoring post fails or is answered with a version.
VersionOne == {c \in Configurations : c.additionalDataKeys /\ c.version = Some(1)}
ConfiguredAt(sightings) ==
    \E i \in 1..Len(requests), answer \in {"failed", "object"}, configuration \in VersionOne :
        \E selfPosition \in BOOLEAN :
            ConfigurationDone(i, answer, configuration, FALSE, sightings, selfPosition)
MonitoringVersioned ==
    \E i \in 1..Len(requests), response \in MonitoringResponses :
        /\ response.error \/ Has(response.configuration_version)
        /\ MonitoringDone(i, response, FALSE)
NextAis ==
    \/ requests = << >> /\ Monitoring
    \/ ConfiguredAt(NoSightings)
    \/ MonitoringVersioned
SpecAis == Init /\ [][NextAis]_vars

\* The monitoring passes over what app.getPath('vessels') lists.
NextVessels ==
    \/ /\ requests = << >>
       /\ \E vessels \in VesselTrees, selfPosition \in BOOLEAN, fatal \in BOOLEAN :
              SendMonitoringData(detectedTargets(vessels), selfPosition, fatal)
    \/ \E vessels \in VesselTrees : ConfiguredAt(detectedTargets(vessels))
    \/ MonitoringVersioned
SpecVessels == Init /\ [][NextVessels]_vars


\* ---------------------------------------------------------------------------
\* Properties of the Durable Buffer and the Sync Engine
\* ---------------------------------------------------------------------------

\* The rows of a sequence at the positions in kept, in their order.
KeepAt(rows, kept) ==
    LET F[k \in 0..Len(rows)] ==
            IF k = 0 THEN << >>
            ELSE IF k \in kept THEN Append(F[k - 1], rows[k]) ELSE F[k - 1]
    IN F[Len(rows)]

\* The positions of the rows newer than the cursor.
NewerThan(rows, cursor) == {k \in 1..Len(rows) : rows[k].ts > cursor}

\* The step appends one row and touches no other.
AppendsOneRow == Len(buffer') = Len(buffer) + 1 /\ SubSeq(buffer', 1, Len(buffer)) = buffer

\* The step completes a DELETE with a cursor; it removes nothing newer than the
\* cursor and leaves the remaining rows as they were.
PrunesNoNewer ==
    \E i \in 1..Len(dbOps) :
        /\ dbOps[i].op = "delete"
        /\ Has(dbOps[i].cursor)
        /\ dbOps' = RemoveAt(dbOps, i)
        /\ \E kept \in SUBSET (1..Len(buffer)) :
              /\ NewerThan(buffer, Val(dbOps[i].cursor)) \subseteq kept
              /\ buffer' = KeepAt(buffer, kept)

\* The step issues a DELETE.
IssuesDelete ==
    /\ Len(dbOps') = Len(dbOps) + 1
    /\ dbOps'[Len(dbOps')].op = "delete"

\* The step is the callback of a push answered with HTTP-200, and the DELETE it
\* issues carries that response's processedUntil.
AnsweredWith200 ==
    \E i \in 1..Len(requests) :
        /\ requests[i].kind = "push"
        /\ requests' = RemoveAt(requests, i)
        /\ pushOutcome' = "Successfully sent"
        /\ \E response \in Responses(Acknowledged(requests[i].data)) :
              /\ ~response.error
              /\ response.statusCode = 200
              /\ dbOps' = Append(dbOps, [op |-> "delete", cursor |-> response.processedUntil])

\* C1: a record leaves the buffer only through the prune that follows an
\* HTTP-200 push response, and that prune deletes only records whose ts is at
\* most the processedUntil of that response; no other step removes or modifies
\* a buffered record (an append adds one row and leaves the others alone).
C1_OnlyAcknowledgedRecordsLeave ==
    [][ /\ (buffer' # buffer => AppendsOneRow \/ PrunesNoNewer)
        /\ (IssuesDelete => AnsweredWith200) ]_vars

\* C1 witness: the older of the two rows left by the previous run has been
\* pruned after a successful push, the newer one is still buffered.
C1_Witness ==
    /\ buffer = <<OldRows[2]>>
    /\ pushOutcome = "Successfully sent"
    /\ dbOps = << >>

\* C2: a completed prune with cursor c shortens the buffer by exactly the
\* number of rows with ts <= c, and the rows with ts > c stay, unchanged and in
\* their order.
C2_PruneUpToRemovesExactlyOlder ==
    [][ \A i \in 1..Len(dbOps) :
           (/\ dbOps[i].op = "delete"
            /\ Has(dbOps[i].cursor)
            /\ (\E fatal \in BOOLEAN : DeleteDone(i, TRUE, fatal)))
           => LET c == Val(dbOps[i].cursor)
              IN /\ Len(buffer') = Len(buffer) - Cardinality({k \in 1..Len(buffer) : buffer[k].ts <= c})
                 /\ buffer' = KeepAt(buffer, NewerThan(buffer, c)) ]_vars

\* C2 witness: of the two old rows and a row of this run, a prune up to the
\* older row's time has removed that row alone.
C2_Witness ==
    /\ Len(buffer) = 2
    /\ buffer[1] = OldRows[2]
    /\ buffer[2].ts >= StartTime
    /\ pushOutcome = "Successfully sent"

\* The push responses that are a transport error or carry a status that is
\* neither 200 nor 204.
Failures == {response \in Responses({}) : response.error \/ response.statusCode \notin {200, 204}}

\* C3: when a push fails in transit or is answered with a status outside 2xx,
\* the callback deletes nothing, issues no statement and no request, and leaves
\* lastSuccessfulUpdate as it was: only the answered request is gone.
C3_FailedPushChangesNothing ==
    [][ \A i \in 1..Len(requests), response \in Failures :
           (\E fatal \in BOOLEAN : PushDone(i, response, fatal))
           => /\ buffer' = buffer
              /\ dbOps' = dbOps
              /\ lastSuccessfulUpdate' = lastSuccessfulUpdate
              /\ requests' = RemoveAt(requests, i) ]_vars

\* C3 witness: a push of a non-empty buffer has failed; the rows are all there,
\* nothing is pending and no success was recorded.
C3_Witness ==
    /\ pushOutcome = "Connection to the server failed"
    /\ buffer = OldRows
    /\ dbOps = << >>
    /\ requests = << >>
    /\ lastSuccessfulUpdate = None

\* The drains in flight: the batch reads not yet answered by the store and the
\* push requests not yet answered by the server.
DrainsInFlight ==
    Cardinality({i \in 1..Len(dbOps) : dbOps[i].op = "select" /\ dbOps[i].reader = "submit"})
    + Cardinality({i \in 1..Len(requests) : requests[i].kind = "push"})

\* C4: at most one drain is in flight: no batch read starts, and no second push
\* is outstanding, while a push request is outstanding.
C4_OneDrainInFlight ==
    (\E i \in 1..Len(requests) : requests[i].kind = "push") => DrainsInFlight <= 1

\* ---------------------------------------------------------------------------
\* Properties of the Significance Evaluator
\* ---------------------------------------------------------------------------

\* When the held position was written: the last accepted update, or the persist
\* that cleared changedOn (updateDatabase stamps updateLastCalled as it does).
heldSince ==
    IF Has(Val(position).changedOn) THEN Val(Val(position).changedOn) ELSE updateLastCalled

\* The step hands the store an INSERT of this position, stamped now.
Persisted(value) ==
    /\ Len(dbOps') = Len(dbOps) + 1
    /\ dbOps'[Len(dbOps')].op = "insert"
    /\ dbOps'[Len(dbOps')].row.ts = now
    /\ dbOps'[Len(dbOps')].row.latitude = value.latitude
    /\ dbOps'[Len(dbOps')].row.longitude = value.longitude
    /\ updateLastCalled' = now

\* C5: a position update 5 nm or more from the held position, arriving no
\* more than 2 minutes after the held position was written, is rejected: the
\* held coordinates, the last-persist time, the windows, the buffer and the
\* statements handed to the store are all as they were.
C5_JumpWithinTwoMinutesRejected ==
    [][ \A value \in Positions :
           (/\ Has(position)
            /\ ProcessPosition(value)
            /\ distanceTo(value) >= ANOMALY_DISTANCE
            /\ now - heldSince <= ANOMALY_MINUTES)
           => /\ Val(position').latitude = Val(position).latitude
              /\ Val(position').longitude = Val(position).longitude
              /\ UNCHANGED <<updateLastCalled, dbOps, buffer, motionVars>> ]_vars

\* The rows written in this run that are still to be seen: those in the buffer
\* and those of the INSERTs the store has not answered.
WrittenRows ==
    LET inserts == SelectSeq(dbOps, LAMBDA st : st.op = "insert")
    IN buffer \o [k \in 1..Len(inserts) |-> inserts[k].row]

\* C6: whatever rule fires, two records are never written less than 60 seconds
\* apart, and none less than 60 seconds after the start of the run.
C6_PersistsAMinuteApart ==
    LET rows == WrittenRows
    IN /\ \A i \in 1..Len(rows) : rows[i].ts - StartTime >= RATE_LIMIT_MINUTES
       /\ \A i, j \in 1..Len(rows) :
             i < j => Abs(rows[j].ts - rows[i].ts) >= RATE_LIMIT_MINUTES

\* C6 witness: a position update arrived in the minute of a persist, was
\* accepted and left the store alone.
C6_Witness ==
    /\ outcome = "limited"
    /\ updateLastCalled > StartTime
    /\ now = updateLastCalled
    /\ Has(position)
    /\ Val(position).changedOn = Some(now)
    /\ \E i \in 1..Len(WrittenRows) : WrittenRows[i].ts = now

\* C7: an accepted position update arriving while a position is held and
\* maxInterval or more after the last persist is persisted, however little the
\* vessel moved and whether or not it is moving.
C7_HeartbeatPersists ==
    [][ \A value \in Positions :
           (/\ Has(position)
            /\ ProcessPosition(value)
            /\ outcome' # "erroneous"
            /\ now - updateLastCalled >= DB_UPDATE_MINUTES)
           => Persisted(value) ]_vars

\* C7 witness: a vessel at rest, a quarter of an hour after a record was
\* written, has the same position written again.
C7_Witness ==
    /\ outcome = "rule1"
    /\ ~GreaterEq(speedOverGround, Knots(SPEED_THRESHOLD))
    /\ Len(buffer) = 1
    /\ \E i \in 1..Len(dbOps) :
          /\ dbOps[i].op = "insert"
          /\ dbOps[i].row.latitude = buffer[1].latitude
          /\ dbOps[i].row.ts >= buffer[1].ts + DB_UPDATE_MINUTES

\* The update before this one is the held position: it was the first of the
\* run, or it was persisted.
PreviousIsHeld == outcome \in Rules \cup {"first"}

\* C8 as stated: in a sequence of position updates, each minDistance or more
\* from the one before it and more than 60 seconds after it, every update is
\* persisted, the first of the sequence included.
C8_EveryUpdatePersisted ==
    [][ \A value \in Positions :
           (/\ ProcessPosition(value)
            /\ IF Has(position)
               THEN /\ PreviousIsHeld
                    /\ distanceTo(value) >= MIN_DISTANCE
                    /\ now - heldSince > RATE_LIMIT_MINUTES
               ELSE TRUE)
           => Persisted(value) ]_vars

\* C8 amended: in a sequence of position updates that begins with the first of
\* the run, each minDistance or more from the one before it and more than 60
\* seconds after it, every update after the first is persisted, provided the
\* second is not one the anomaly guard rejects (5 nm or more from the first and
\* no more than 2 minutes after it).
C8_EveryLaterUpdatePersisted ==
    [][ \A value \in Positions :
           (/\ ProcessPosition(value)
            /\ Has(position)
            /\ PreviousIsHeld
            /\ distanceTo(value) >= MIN_DISTANCE
            /\ now - heldSince > RATE_LIMIT_MINUTES
            /\ ~(/\ outcome = "first"
                 /\ distanceTo(value) >= ANOMALY_DISTANCE
                 /\ now - heldSince <= ANOMALY_MINUTES))
           => Persisted(value) ]_vars

\* C8 witness: two records in a row, the second written for an update
\* minDistance or more from the first record's position and more than a minute
\* after it.
C8_Witness ==
    /\ outcome = "rule3"
    /\ Len(buffer) = 1
    /\ \E i \in 1..Len(dbOps) :
          /\ dbOps[i].op = "insert"
          /\ dbOps[i].row.ts = now
          /\ dbOps[i].row.ts > buffer[1].ts + RATE_LIMIT_MINUTES
          /\ calculateDistance(buffer[1].latitude, buffer[1].longitude,
                               dbOps[i].row.latitude, dbOps[i].row.longitude) >= MIN_DISTANCE

\* C9: the turn rule fires only for a moving vessel with 6 course samples whose
\* newest and oldest differ by more than the turn threshold; with fewer than 6
\* samples it never fires.
C9_TurnNeedsSixSamples ==
    [][ \A value \in Positions :
           (ProcessPosition(value) /\ outcome' = "rule4")
           => /\ Len(previousCOGs) = COG_WINDOW
              /\ Has(speedOverGround)
              /\ Val(speedOverGround) >= Knots(SPEED_THRESHOLD)
              /\ Abs(previousCOGs[1] - previousCOGs[COG_WINDOW]) > Degrees(MINIMUM_TURN_DEGREES) ]_vars

\* C9 witness: the turn rule has fired on a full window.
C9_Witness ==
    /\ outcome = "rule4"
    /\ Len(previousCOGs) = COG_WINDOW
    /\ Abs(previousCOGs[1] - previousCOGs[COG_WINDOW]) > Degrees(MINIMUM_TURN_DEGREES)
    /\ \E i \in 1..Len(dbOps) : dbOps[i].op = "insert" /\ dbOps[i].row.ts = now

\* Every speed of the window is on the other side of the band from the current speed.
WindowOpposite(band) ==
    /\ Has(speedOverGround)
    /\ \/ /\ Val(speedOverGround) <= band
          /\ \A i \in 1..Len(previousSpeeds) : previousSpeeds[i] > band
       \/ /\ Val(speedOverGround) > band
          /\ \A i \in 1..Len(previousSpeeds) : previousSpeeds[i] <= band

Bands == {Knots(SPEED_THRESHOLD * k) : k \in 1..3}

\* C10: the speed-band rule fires only if, for one of the three bands, every
\* speed of the window is on the other side of the band from the current speed.
C10_BandNeedsUniformWindow ==
    [][ \A value \in NearPositions :
           (ProcessPosition(value) /\ outcome' = "rule5")
           => \E band \in Bands : WindowOpposite(band) ]_vars

\* C10 witness: the speed rose across a band, the window holds speeds on both
\* sides of it, and the position update that followed wrote nothing.
C10_Witness ==
    /\ outcome = "none"
    /\ now > StartTime
    /\ Len(previousSpeeds) = SPEED_WINDOW
    /\ \E band \in Bands :
          /\ Val(speedOverGround) > band
          /\ \E i \in 1..SPEED_WINDOW : previousSpeeds[i] <= band
    /\ dbOps = << >>
    /\ buffer = << >>

\* ---------------------------------------------------------------------------
\* Properties of the AIS target cache
\* ---------------------------------------------------------------------------

\* A pass of the monitoring timer under a configuration that asks for the AIS
\* targets.
RefreshPass(sightings, selfPosition) ==
    /\ Has(monitoringConfiguration)
    /\ Val(monitoringConfiguration).sendAisTargets
    /\ \E fatal \in BOOLEAN : SendMonitoringData(sightings, selfPosition, fatal)

\* C11: a target that is in the cache and is not seen in a refresh pass is out
\* of the cache when the pass ends, and a payload carries no target that the
\* pass which built it did not see.
C11_UnseenTargetEvicted ==
    [][ \A sightings \in Sightings, selfPosition \in BOOLEAN :
           RefreshPass(sightings, selfPosition)
           => /\ \A m \in DOMAIN aisTarget :
                    m \notin DOMAIN sightings => m \notin DOMAIN aisTarget'
              /\ Has(monitoringSent') =>
                    DOMAIN Val(monitoringSent') \subseteq DOMAIN sightings ]_vars

\* C11 witness: a target inserted and updated twice over three passes was not
\* seen in the next; it is gone from the cache and from the payload, in which
\* the other target still is.
C11_Witness ==
    /\ aisUpdates["211000001"] = 2
    /\ "211000001" \notin DOMAIN aisTarget
    /\ Has(monitoringSent)
    /\ DOMAIN Val(monitoringSent) = {"211000002"}

\* C12 as stated: a target carries its details after an update exactly when
\* that update is its 30th or its 60th.
C12_DetailOn30thAnd60th ==
    \A m \in DOMAIN aisTarget :
        aisUpdates[m] >= 1 => (aisTarget[m].vessel <=> aisUpdates[m] \in {30, 60})

\* ---------------------------------------------------------------------------
\* Further properties of the Durable Buffer and the Sync Engine
\* ---------------------------------------------------------------------------

\* The cursors an acknowledgment may be replayed with: the times of the rows an
\* earlier run left, a time before and between them, and the minutes of this run.
ReplayCursors ==
    {OldRows[k].ts : k \in 1..Len(OldRows)} \cup {StartTime - 35, StartTime - 25} \cup SyncClock

\* C13: once a prune with cursor c has completed, a prune with any cursor
\* c' <= c (the same or an earlier acknowledgment replayed) leaves the buffer
\* as it is.
C13_ReplayedPruneIsNoOp ==
    [][ \A i \in 1..Len(dbOps) :
           (/\ dbOps[i].op = "delete"
            /\ Has(dbOps[i].cursor)
            /\ (\E fatal \in BOOLEAN : DeleteDone(i, TRUE, fatal)))
           => \A earlier \in ReplayCursors :
                 earlier <= Val(dbOps[i].cursor) => PruneUpTo(buffer', earlier) = buffer' ]_vars

\* C13 witness: the older row was pruned on one acknowledgment, the same
\* acknowledgment arrived again from an overlapping drain, and its prune is to
\* run on a buffer that still holds the newer row.
C13_Witness ==
    /\ buffer = <<OldRows[2]>>
    /\ pushOutcome = "Successfully sent"
    /\ \E i \in 1..Len(dbOps) :
          /\ dbOps[i].op = "delete"
          /\ dbOps[i].cursor = Some(OldRows[1].ts)

\* A row stamped t is in the buffer.
Buffered(t) == \E k \in 1..Len(buffer) : buffer[k].ts = t

\* The times a row of the buffer may carry.
RowTimes == {OldRows[k].ts : k \in 1..Len(OldRows)} \cup SyncClock

\* C14: with the submit timer firing again and again and pushes in the end
\* acknowledged up to the largest timestamp of their batch, every row that is
\* in the buffer is eventually pruned.
C14_EveryRowEventuallyPruned ==
    \A t \in RowTimes : Buffered(t) ~> ~Buffered(t)

\* C14 witness: the rows left by the outage are gone after an acknowledged push.
C14_Witness ==
    /\ buffer = << >>
    /\ pushOutcome = "Successfully sent"
    /\ Has(lastSuccessfulUpdate)
    /\ dbOps = << >>
    /\ requests = << >>

\* The drains started and not yet posted: the batch reads handed to the store.
DrainsStarted ==
    Cardinality({i \in 1..Len(dbOps) : dbOps[i].op = "select" /\ dbOps[i].reader = "submit"})

\* C15 as stated: the completion of a successful append starts a drain; the
\* batch read is handed to the store in that step, without a timer firing.
C15_AppendStartsDrain ==
    [][ \A i \in 1..Len(dbOps) :
           InsertDone(i, TRUE, Capacity) => DrainsStarted' > DrainsStarted ]_vars

\* C16 as stated: a drain that finds the buffer empty still posts a push, with
\* no rows, and every 200 answer to a push without rows sets
\* lastSuccessfulUpdate to now.
C16_EmptyPing ==
    [][ /\ \A i \in 1..Len(dbOps) :
              (SubmitSelectDone(i) /\ buffer = << >>)
              => requests' = Append(requests, [kind |-> "push", data |-> << >>])
        /\ \A i \in 1..Len(requests) :
              \A response \in Responses(Acknowledged(<< >>)) :
                 (/\ requests[i].data = << >>
                  /\ ~response.error /\ response.statusCode = 200
                  /\ (\E fatal \in BOOLEAN : PushDone(i, response, fatal)))
                 => lastSuccessfulUpdate' = Some(now) ]_vars

\* C17 as stated: when a prune that followed a successful push leaves more
\* than a residual row in the buffer, its completion starts another drain.
C17_BacklogRepeatsDrain ==
    [][ \A i \in 1..Len(dbOps) :
           (/\ dbOps[i].op = "delete"
            /\ (\E fatal \in BOOLEAN : DeleteDone(i, TRUE, fatal))
            /\ Len(buffer') < Len(buffer)
            /\ Len(buffer') > 1)
           => DrainsStarted' > DrainsStarted ]_vars

\* The 200 answers whose body carries no processedUntil.
Malformed == {response \in Responses({}) : ~response.error /\ response.statusCode = 200}

\* C18 as stated: a 200 answer without a usable processedUntil is handled like
\* a failed push: no prune is issued, the buffer stays and lastSuccessfulUpdate
\* is not advanced.
C18_MalformedLikeFailure ==
    [][ \A i \in 1..Len(requests), response \in Malformed :
           (\E fatal \in BOOLEAN : PushDone(i, response, fatal))
           => /\ dbOps' = dbOps
              /\ buffer' = buffer
              /\ lastSuccessfulUpdate' = lastSuccessfulUpdate ]_vars

\* The speeds received before the current one that the window still holds:
\* previousSpeeds.slice(1).
EarlierSpeeds == IF previousSpeeds = << >> THEN << >> ELSE Tail(previousSpeeds)

\* The test of vesselSlowedDownOrSpeededUp taken over the earlier speeds: the
\* current speed is on one side of the band and every earlier speed of the
\* window on the other.
CrossedBand(band) ==
    \/ /\ LessEq(speedOverGround, band)
       /\ \A i \in 1..Len(EarlierSpeeds) : EarlierSpeeds[i] > band
    \/ /\ Greater(speedOverGround, band)
       /\ \A i \in 1..Len(EarlierSpeeds) : EarlierSpeeds[i] <= band

\* C19 as stated: an accepted position update that arrives 60 s or more after
\* the last persist, with rules 1 to 4 false, and just after the speed crossed
\* one of the three bands away from every earlier speed of the window, is
\* persisted.
C19_BandCrossingPersists ==
    [][ \A value \in NearPositions :
           (/\ Has(position)
            /\ ProcessPosition(value)
            /\ outcome' \in {"rule5", "none"}
            /\ \E band \in Bands : CrossedBand(band))
           => Persisted(value) ]_vars

\* The condition of each rule, as processDelta states it.
RuleHolds(k, value) ==
    CASE k = 1 -> timePassed >= DB_UPDATE_MINUTES
      [] k = 2 -> GreaterEq(speedOverGround, Knots(SPEED_THRESHOLD))
                  /\ timePassed >= DB_UPDATE_MINUTES_MOVING
      [] k = 3 -> distanceTo(value) >= MIN_DISTANCE
      [] k = 4 -> GreaterEq(speedOverGround, Knots(SPEED_THRESHOLD)) /\ vesselMadeSignificantTurn
      [] k = 5 -> \E band \in Bands : vesselSlowedDownOrSpeededUp(band)

RuleName(k) == <<"rule1", "rule2", "rule3", "rule4", "rule5">>[k]

\* The update reaches the rules: a position is held, the reading is not taken
\* for erroneous and a minute has passed since the last persist.
Evaluated(value) ==
    Has(position) /\ ~erroneousPosition(value) /\ timePassed >= RATE_LIMIT_MINUTES

\* C20: a position update hands the store at most one record.  When it reaches
\* the rules, the first of rules 1 to 5 that holds decides and the update is
\* persisted; when none holds, and whenever the update is not persisted, no
\* record is written, and coordinates once held stay as they were together
\* with the time of the last persist.
C20_FirstRuleDecides ==
    [][ \A value \in NearPositions :
           ProcessPosition(value)
           => /\ Len(dbOps') <= Len(dbOps) + 1
              /\ Evaluated(value)
                 => IF \E k \in 1..5 : RuleHolds(k, value)
                    THEN \E k \in 1..5 :
                            /\ RuleHolds(k, value)
                            /\ \A j \in 1..(k - 1) : ~RuleHolds(j, value)
                            /\ outcome' = RuleName(k)
                            /\ Persisted(value)
                    ELSE outcome' = "none"
              /\ outcome' \notin Rules
                 => /\ dbOps' = dbOps
                    /\ updateLastCalled' = updateLastCalled
                    /\ Has(position)
                       => /\ Val(position').latitude = Val(position).latitude
                          /\ Val(position').longitude = Val(position).longitude ]_vars

\* The moving interval decided a persist for which the distance rule held as
\* well: the record on its way to the store lies away from the last row.
C20_Witness ==
    /\ outcome = "rule2"
    /\ Len(buffer) >= 1
    /\ Len(dbOps) = 1
    /\ dbOps[1].op = "insert"
    /\ dbOps[1].row.ts = now
    /\ dbOps[1].row.latitude # buffer[Len(buffer)].latitude

\* ---------------------------------------------------------------------------
\* Properties of the aggregates and of the AIS target cache
\* ---------------------------------------------------------------------------

\* C21: a persist leaves the speed over ground, the course over ground, the
\* wind angle and both windows as they were, and the completion of its INSERT
\* sets the peak apparent wind speed to zero and leaves them as they were too.
C21_PersistResetsPeakOnly ==
    [][ /\ \A value \in NearPositions :
              (ProcessPosition(value) /\ outcome' \in Rules)
              => UNCHANGED <<speedOverGround, courseOverGroundTrue, angleSpeedApparent,
                             previousSpeeds, previousCOGs>>
        /\ \A i \in 1..Len(dbOps), ok \in BOOLEAN :
              InsertDone(i, ok, SmallCapacity)
              => /\ windSpeedApparent' = 0
                 /\ UNCHANGED <<speedOverGround, courseOverGroundTrue, angleSpeedApparent,
                                previousSpeeds, previousCOGs>> ]_vars

\* A row with a peak wind speed has been written, the peak is back at zero and
\* the motion fields and windows are filled.
C21_Witness ==
    /\ buffer # << >>
    /\ buffer[Len(buffer)].windSpeedApparent > 0
    /\ dbOps = << >>
    /\ windSpeedApparent = 0
    /\ Has(speedOverGround) /\ Has(courseOverGroundTrue) /\ Has(angleSpeedApparent)
    /\ previousSpeeds # << >> /\ previousCOGs # << >>

\* C22 as stated: in every refresh in which a target already in the cache is
\* seen again its counter goes up by one, and its entry carries the vessel
\* details only if the counter came to the threshold in that refresh (and was
\* reset).
C22_SeenAgainCounts ==
    [][ \A sightings \in Sightings, selfPosition \in BOOLEAN :
           RefreshPass(sightings, selfPosition)
           => \A m \in DOMAIN sightings \cap DOMAIN aisTarget :
                 \/ /\ aisTarget'[m].counter = aisTarget[m].counter + 1
                    /\ ~aisTarget'[m].vessel
                 \/ /\ aisTarget[m].counter + 1 >= DETAIL_EVERY
                    /\ aisTarget'[m].counter = 0
                    /\ aisTarget'[m].vessel ]_vars

\* The vessels of a tree that are not the vessel itself and have a position.
OthersWithPosition(vessels) ==
    {Val(VesselMmsi[key]) : key \in {k \in DOMAIN vessels :
        Has(VesselMmsi[k]) /\ Val(VesselMmsi[k]) # selfMmsi /\ Has(vessels[k])}}

\* C23: after a refresh the keys of the cache are the mmsis of the vessels
\* listed in that refresh that are not the vessel itself and have a position;
\* the vessel itself and a vessel without position are not among them.
C23_CacheKeysAreDetected ==
    [][ \A vessels \in VesselTrees, selfPosition \in BOOLEAN :
           RefreshPass(detectedTargets(vessels), selfPosition)
           => /\ DOMAIN aisTarget' = OthersWithPosition(vessels)
              /\ selfMmsi \notin DOMAIN aisTarget'
              /\ \A key \in DOMAIN vessels :
                    (Has(VesselMmsi[key]) /\ ~Has(vessels[key]))
                    => Val(VesselMmsi[key]) \notin DOMAIN aisTarget' ]_vars

\* A refresh, which listed the vessel itself and a vessel without position,
\* has left the vessel in range as the only target and it was posted.
C23_Witness ==
    /\ DOMAIN aisTarget = {"211000001"}
    /\ aisTarget["211000001"].counter > 0
    /\ monitoringSent = Some(aisTarget)

\* C24: a target that is not in the cache when a refresh sees it, after an
\* eviction as much as at first sight, is inserted with counter 0 and with its
\* vessel details; nothing of an earlier stay in the cache is kept.
C24_ReturningTargetIsNew ==
    [][ \A sightings \in Sightings, selfPosition \in BOOLEAN :
           RefreshPass(sightings, selfPosition)
           => \A m \in DOMAIN sightings \ DOMAIN aisTarget :
                 aisTarget'[m] = [counter |-> 0, updated |-> sightings[m], vessel |-> TRUE] ]_vars

\* A target that had been updated, and was then evicted, is back in the cache
\* as a new entry.
C24_Witness ==
    \E m \in aisReturned :
        /\ m \in DOMAIN aisTarget
        /\ aisTarget[m].counter = 0
        /\ aisTarget[m].vessel
        /\ aisUpdates[m] = 0

\* ---------------------------------------------------------------------------
\* Properties of the batch read
\* ---------------------------------------------------------------------------

\* The rows of a sequence, as a set.
RowSet(rows) == {rows[k] : k \in 1..Len(rows)}

\* C25: the batch a drain reads, which is the payload it pushes, holds every
\* row of the buffer or BATCH_LIMIT of them, never more, in ascending order of
\* ts, and no row left out is older than a row of the batch.
C25_BatchIsOldestInOrder ==
    [][ \A i \in 1..Len(dbOps) :
           SubmitSelectDone(i)
           => LET batch == requests'[Len(requests')].data
              IN  /\ requests'[Len(requests')].kind = "push"
                  /\ Len(batch) <= BATCH_LIMIT
                  /\ Len(batch) = Len(buffer) \/ Len(batch) = BATCH_LIMIT
                  /\ \A k \in 1..(Len(batch) - 1) : batch[k].ts <= batch[k + 1].ts
                  /\ RowSet(batch) \subseteq RowSet(buffer)
                  /\ \A row \in RowSet(buffer) \ RowSet(batch) :
                        \A k \in 1..Len(batch) : row.ts >= batch[k].ts ]_vars

\* A push carries a full batch while the buffer holds more rows than that.
C25_Witness ==
    \E i \in 1..Len(requests) :
        /\ requests[i].kind = "push"
        /\ Len(requests[i].data) = BATCH_LIMIT
        /\ Len(buffer) > BATCH_LIMIT

\* ---------------------------------------------------------------------------
\* Properties of the append path and of the follow-ups of a push
\* ---------------------------------------------------------------------------

\* The INSERTs handed to the store whose completion is not yet delivered.
InsertsOutstanding == {i \in 1..Len(dbOps) : dbOps[i].op = "insert"}

\* C28 as stated: at no time are two INSERTs outstanding.
C28_OneInsertOutstanding == Cardinality(InsertsOutstanding) <= 1

\* What the body of a push answer may carry besides processedUntil; the
\* callback of the push reads none of it.
PushBodies == [refreshMetadata : BOOLEAN, newerConfiguration : BOOLEAN]

\* The metadata requests in flight.
MetadataRequests(reqs) == SelectSeq(reqs, LAMBDA r : r.kind = "update")

\* C30 as stated: a push answered with 200 and refreshMetadata = true starts a
\* metadata request.
C30_RefreshMetadataFollowsUp ==
    [][ \A i \in 1..Len(requests), body \in PushBodies :
           \A response \in Responses(Acknowledged(requests[i].data)) :
              (/\ ~response.error /\ response.statusCode = 200
               /\ body.refreshMetadata
               /\ (\E fatal \in BOOLEAN : PushDone(i, response, fatal)))
              => Len(MetadataRequests(requests')) > Len(MetadataRequests(requests)) ]_vars

\* ---------------------------------------------------------------------------
\* Properties of stop and of failed reads
\* ---------------------------------------------------------------------------

\* C26 as stated: the callback of a push or of a metadata request that is
\* delivered after stop gives the store no statement and changes nothing of
\* what the plugin holds.
C26_CompletionAfterStopIsNoOp ==
    [][ lifecycle = "stopped"
        => \A i \in 1..Len(requests) :
              (\/ \E response \in Responses(Acknowledged(requests[i].data)), fatal \in BOOLEAN :
                     PushDone(i, response, fatal)
               \/ \E ok \in BOOLEAN : MetadataDone(i, ok))
              => UNCHANGED <<dbOps, buffer, lastSuccessfulUpdate, metdataSubmitted>> ]_vars

\* C27 as stated: after stop no position update gives the store an INSERT (and
\* no timer a statement or a request).
C27_NoWorkAfterStop ==
    [][ lifecycle = "stopped"
        => /\ \A value \in NearPositions : ProcessPosition(value) => dbOps' = dbOps
           /\ SubmitTimer \/ SendMetadata => FALSE ]_vars

\* C29 as stated: a failed read of the buffer, for a drain or for the status,
\* sends no push, changes nothing and leaves the process running.
C29_FailedReadIsAbandoned ==
    [][ \A i \in 1..Len(dbOps), fatal \in BOOLEAN :
           SelectFailed(i, fatal)
           => /\ lifecycle' = lifecycle
              /\ UNCHANGED <<requests, buffer, lastSuccessfulUpdate, pluginStatus>> ]_vars

\* ---------------------------------------------------------------------------
\* Properties of the cursor, the status line and the sensor windows
\* ---------------------------------------------------------------------------

\* The DELETE statements outstanding that carry a cursor.
PrunesOutstanding == {i \in 1..Len(dbOps) : dbOps[i].op = "delete" /\ Has(dbOps[i].cursor)}

\* C31 as stated: the cursors of the prunes go up, so of two prunes given to
\* the store the later never carries the lower cursor.
C31_CursorNeverGoesBack ==
    \A i, j \in PrunesOutstanding : i < j => Val(dbOps[i].cursor) <= Val(dbOps[j].cursor)

\* C33 as stated: with every push answered by a failure or by the largest
\* timestamp of its own batch, every row a prune deletes was in the body of a
\* push that was answered with HTTP 200.
C33_PrunedRowsWereSent ==
    [][ \A i \in 1..Len(dbOps) :
            (\E fatal \in BOOLEAN : DeleteDone(i, TRUE, fatal))
            => (Timestamps(buffer) \ Timestamps(buffer')) \subseteq delivered ]_vars

\* A step in which a push or a metadata publish is answered with HTTP 200.
Answered200 ==
    \/ \E i \in 1..Len(requests) : MetadataDone(i, TRUE)
    \/ \E i \in 1..Len(requests) :
          \E response \in Responses(Acknowledged(requests[i].data)) :
              /\ ~response.error /\ response.statusCode = 200
              /\ (\E fatal \in BOOLEAN : PushDone(i, response, fatal))

\* C32 as stated: the status read reports the number of rows in the buffer at
\* the read and the time since the last successful contact, or that there was
\* none; a contact time is held from the first HTTP 200 of a push or a metadata
\* publish on and is set by nothing else; the read changes only the status
\* message.
C32_StatusFromDepthAndContact ==
    [][ /\ \A i \in 1..Len(dbOps) :
              StatusSelectDone(i) =>
                  /\ pluginStatus'.entries = Some(Len(buffer))
                  /\ pluginStatus'.since = None <=> lastSuccessfulUpdate = None
                  /\ Has(lastSuccessfulUpdate) =>
                         pluginStatus'.since = Some(timeSince(Val(lastSuccessfulUpdate)))
                  /\ UNCHANGED <<buffer, lastSuccessfulUpdate, metdataSubmitted, requests,
                                 position, updateLastCalled, motionVars, aisVars>>
        /\ Answered200 => lastSuccessfulUpdate' = Some(now)
        /\ ~Answered200 => lastSuccessfulUpdate' = lastSuccessfulUpdate ]_vars

\* C34 as stated: an INSERT that fails leaves the buffer as it was, the plugin
\* running and the peak apparent wind speed and the maximum speed as gathered.
C34_FailedInsertKeepsAggregates ==
    [][ \A i \in 1..Len(dbOps) :
            InsertDone(i, FALSE, SmallCapacity) =>
                /\ buffer' = buffer
                /\ lifecycle' = lifecycle
                /\ windSpeedApparent' = windSpeedApparent
                /\ Has(maxSpeedOverGround) => maxSpeedOverGround' = maxSpeedOverGround ]_vars

\* The first entries of a window, at most n of them.
Newest(window, n) == SubSeq(window, 1, IF Len(window) < n THEN Len(window) ELSE n)

\* C35: the speed window never holds more than 3 entries and the course window
\* never more than 6; a sample goes to the front of its window, before the
\* entries that were there, of which the oldest leaves when the window is
\* full; and from the first sample on the front entry is the current smoothed
\* speed, respectively the current course.
C35_WindowsBoundedNewestFirst ==
    [][ /\ Len(previousSpeeds') <= SPEED_WINDOW
        /\ Len(previousCOGs') <= COG_WINDOW
        /\ Has(speedOverGround') <=> previousSpeeds' # << >>
        /\ Has(courseOverGroundTrue') <=> previousCOGs' # << >>
        /\ Has(speedOverGround') => previousSpeeds'[1] = Val(speedOverGround')
        /\ Has(courseOverGroundTrue') => previousCOGs'[1] = Val(courseOverGroundTrue')
        /\ \A value \in SpeedInputs :
              ProcessSpeed(value) =>
                  /\ speedOverGround' = Some(metersPerSecondToKnots(value))
                  /\ previousSpeeds' = <<metersPerSecondToKnots(value)>>
                                           \o Newest(previousSpeeds, SPEED_WINDOW - 1)
        /\ \A value \in CogInputs :
              ProcessCog(value) =>
                  /\ courseOverGroundTrue' = Some(radiantToDegrees(value))
                  /\ previousCOGs' = <<radiantToDegrees(value)>>
                                         \o Newest(previousCOGs, COG_WINDOW - 1) ]_vars

\* Both windows are full of samples that differ, the newest in front.
C35_Witness ==
    /\ Len(previousSpeeds) = SPEED_WINDOW
    /\ Len(previousCOGs) = COG_WINDOW
    /\ previousSpeeds[1] = Val(speedOverGround)
    /\ previousCOGs[1] = Val(courseOverGroundTrue)
    /\ previousSpeeds[1] # previousSpeeds[2] /\ previousSpeeds[2] # previousSpeeds[SPEED_WINDOW]
    /\ previousCOGs[1] # previousCOGs[2] /\ previousCOGs[1] # previousCOGs[COG_WINDOW]

\* C36: a position update that the anomaly guard rejects leaves the held
\* position and its time as they were, and an update that arrives more than
\* ANOMALY_MINUTES after the held position was last accepted is not rejected,
\* however far it is from the held position.
C36_GuardGivesWay ==
    [][ \A value \in Positions :
            (Has(position) /\ ProcessPosition(value)) =>
                /\ outcome' = "erroneous" =>
                       UNCHANGED <<position, updateLastCalled, dbOps>>
                /\ now - heldSince > ANOMALY_MINUTES => outcome' # "erroneous" ]_vars

\* The first row of the run is written three minutes or more after the start
\* for a position 6 nm from the one held, which was accepted more than two
\* minutes earlier.
C36_Witness ==
    /\ outcome = "rule3"
    /\ Has(position) /\ Val(position).latitude = 100
    /\ now >= StartTime + ANOMALY_MINUTES + 1
    /\ maxSpeedOverGround = None
    /\ buffer = << >>
    /\ Len(dbOps) = 1 /\ dbOps[1].op = "insert" /\ dbOps[1].row.ts = now

\* C37: a push answered with HTTP 204 issues no prune, leaves the buffer as it
\* is and does not advance the time of the last successful contact, so the
\* status goes on counting from the last HTTP 200.
C37_NoContentChangesNothing ==
    [][ \A i \in 1..Len(requests) :
            \A response \in Responses(Acknowledged(requests[i].data)) :
                ( /\ ~response.error /\ response.statusCode = 204
                  /\ \E fatal \in BOOLEAN : PushDone(i, response, fatal) ) =>
                    /\ pushOutcome' = "Server responded with HTTP-204"
                    /\ UNCHANGED <<dbOps, buffer, lastSuccessfulUpdate, metdataSubmitted,
                                   pluginStatus, delivered>> ]_vars

\* A push was answered with HTTP 204 a minute after one was answered with
\* HTTP 200: the rows are still there and the contact time is the earlier one.
C37_Witness ==
    /\ pushOutcome = "Server responded with HTTP-204"
    /\ buffer # << >>
    /\ Has(lastSuccessfulUpdate)
    /\ Val(lastSuccessfulUpdate) < now

\* The separation of two courses on the circle, in tenths of a degree.
Separation(a, b) == IF Abs(a - b) <= 1800 THEN Abs(a - b) ELSE 3600 - Abs(a - b)

\* C38 as stated: a position update does not take the turn rule when the newest
\* and the oldest course of the full window are at most MINIMUM_TURN_DEGREES
\* apart on the circle.
C38_TurnMeasuredOnCircle ==
    [][ \A value \in FixedPositions :
            ( /\ ProcessPosition(value)
              /\ Len(previousCOGs) = COG_WINDOW
              /\ Separation(previousCOGs[1], previousCOGs[COG_WINDOW])
                     <= Degrees(MINIMUM_TURN_DEGREES) )
            => outcome' # "rule4" ]_vars

====
